---- MODULE Spec2Model ----
(***************************************************************************)
(* Verification model of consultant-copilot.                               *)
(*                                                                         *)
(* Spec        : the Telegram watcher (live handler, catch-up reconciler)  *)
(*               and the backfill sync service writing one PostgreSQL      *)
(*               database (READ COMMITTED, unique (chat_id, message_id)).  *)
(* SpecWebhook : background processing of the Fireflies webhook.           *)
(* SpecIndex   : EmbeddingService.index_meeting / reindex_meeting.         *)
(* SpecSearch  : RAGService.search_similar_diversified / search_similar.   *)
(* SpecDate    : RAGService._parse_date_range.                             *)
(* SpecSettings: dashboard get_setting / set_setting.                      *)
(* SpecHypotheses: HypothesisRepository create / update_status / stats.    *)
(* SpecRetry   : Spec with the history of embedding failures recorded.     *)
(* SpecAsk     : RAGService.ask and the POST /api/rag/ask endpoint.        *)
(* SpecToggle  : Spec with the dashboard toggling is_active of a chat.     *)
(* SpecShutdown: start and shutdown of the watcher's main coroutine.       *)
(* SpecMonth   : _parse_date_range on questions with month names.          *)
(***************************************************************************)
EXTENDS Integers, FiniteSets, Sequences, TLC

(***************************************************************************)
(* Bounds of the model.                                                    *)
(***************************************************************************)
\* messages posted per chat on the network
MaxMsgId == 2
\* live handler tasks that may be in flight at once
NumLive == 2
\* webhook background tasks that may be in flight at once
NumHooks == 2
\* Meeting rows that may be created by the webhook
MaxMeetings == 3
\* concurrent index / reindex requests
NumIndexers == 2
\* embedded chunks in a generated retrieval corpus
MaxChunks == 3
\* passes of the periodic catch-up task
MaxPasses == 2
\* termination signals sent to the watcher
MaxSignals == 2
\* Hypothesis rows that may be created
MaxHypotheses == 3

(***************************************************************************)
(* Program constants.                                                      *)
(***************************************************************************)
\* MessageHandler.MIN_TEXT_LENGTH
MIN_TEXT_LENGTH == 50
\* chunk_transcript defaults
CHUNK_SIZE == 1000
CHUNK_OVERLAP == 200
\* sync_chat_messages commits every 100 new messages
COMMIT_EVERY == 100

\* SQL NULL / Python None for an integer column
Null == 0 - 1
\* a message without text (event.text is None)
NoText == 0 - 1

\* A text is modelled by its length; distinct lengths are distinct texts.
\* A posted message has no text, a text one character short of the minimum,
\* or a text of at least the minimum length that differs per message id.
TextKinds == {"none", "short", "long"}
TextOf(kind, message_id) ==
    IF kind = "none" THEN NoText
    ELSE IF kind = "short" THEN MIN_TEXT_LENGTH - 1
    ELSE MIN_TEXT_LENGTH + message_id - 1

\* the chat room of the model
ChatIds == {1000}

\* process identities: the reconciler, the live handler tasks, the backfill
Rec == 0
Live == 1..NumLive
Writers == {Rec} \cup Live
Backfill == NumLive + 1

VARIABLES
    telegram_chats,      \* chat_id -> [last_synced_message_id, is_active]
    telegram_messages,   \* committed rows of telegram_messages
    telegram_embeddings, \* committed rows of telegram_embeddings
    history,             \* chat_id -> sequence of texts; index = message id
    wpc,                 \* watcher process: "down" | "running" | "stopped"
    watched,             \* chat ids the NewMessage handler is subscribed to
    pc,                  \* writer -> position inside _save_and_index_message
    cur,                 \* writer -> the message being saved
    txn,                 \* writer -> uncommitted work of its session
    catchup,             \* state of catchup_all_chats / catchup_chat
    sync,                \* state of sync_chat_messages
    calls,               \* chat-session methods invoked by the last step
    returned,            \* value returned by _save_and_index_message in the last step
    meetings,            \* committed rows of meetings created by the webhook
    hook,                \* webhook task -> state of process_fireflies_meeting
    transcript,          \* meeting id -> transcript of the meeting to index
    embeddings,          \* committed rows of embeddings
    indexer,             \* request -> state of index_meeting / reindex_meeting
    corpus,              \* rows of `embeddings e JOIN meetings m` with their
                         \* similarity to the query
    request,             \* arguments of the search call
    results,             \* rows returned by search_similar_diversified
    nearest,             \* rows returned by search_similar
    question,            \* the question asked, a sequence of characters
    now,                 \* datetime.now() of the call
    parsed,              \* value returned by _parse_date_range
    settings,            \* key -> row of the settings table, or NoRow
    setting_call,        \* the last get_setting / set_setting call and its result
    hypotheses,          \* sequence of the rows of hypotheses, in creation order
    stats,               \* value returned by the last get_quarterly_stats
    catalog,             \* ids of the rows of meetings the assistant reads
    rooms,               \* ids of the rows of telegram_chats the assistant reads
    messages,            \* embedded chat messages joined with their chat
    answer,              \* outcome of the last call of RAGService.ask
    response,            \* outcome of the last POST /api/rag/ask
    proc,                \* the watcher's main coroutine and its periodic task
    failed               \* history: keys whose embedding failed and are not yet stored

watcherVars == <<telegram_chats, telegram_messages, telegram_embeddings,
                 history, wpc, watched, pc, cur, txn, catchup, sync,
                 calls, returned, failed>>

webhookVars == <<meetings, hook>>

indexVars == <<transcript, embeddings, indexer>>

searchVars == <<corpus, request, results, nearest>>

dateVars == <<question, now, parsed>>

settingsVars == <<settings, setting_call>>

hypothesisVars == <<hypotheses, stats>>

askVars == <<catalog, rooms, messages, answer, response>>

mainVars == <<proc>>

appVars == <<searchVars, dateVars, settingsVars, hypothesisVars, askVars, mainVars>>

vars == <<watcherVars, webhookVars, indexVars, appVars>>

----------------------------------------------------------------------------
(***************************************************************************)
(* Helpers                                                                 *)
(***************************************************************************)
Max(a, b) == IF a >= b THEN a ELSE b

\* `x or 0`
OrZero(x) == IF x = Null THEN 0 ELSE x

\* `not text`
Falsy(text) == text = NoText \/ text = 0

NoMsg == [chat_id |-> 0, message_id |-> 0, text |-> NoText]
EmptyTxn == [rows |-> {}, embs |-> {}]

NoCatchup == [pc |-> "idle", chats |-> {}, chat_id |-> 0, pos |-> 0,
              clean |-> FALSE]

NoSync == [pc |-> "idle", chat_id |-> 0, last_synced_id |-> 0, loaded |-> Null,
           pos |-> 0, new_messages |-> 0, flushed |-> {}, unflushed |-> {}]

Row(c, m, t, w) == [chat_id |-> c, message_id |-> m, text |-> t, writer |-> w]

Key(r) == <<r.chat_id, r.message_id>>

\* keys of rows inserted but not yet committed by sessions other than w
LockedKeys(w) ==
    {Key(r) : r \in UNION {txn[q].rows : q \in Writers \ {w}}}
    \cup (IF w = Backfill THEN {} ELSE {Key(r) : r \in sync.flushed})

CommittedKeys == {Key(r) : r \in telegram_messages}

----------------------------------------------------------------------------
\* fireflies ids the webhook is called with
FirefliesIds == {"ff1", "ff2"}
Hooks == 1..NumHooks
NoHook == [pc |-> "idle", meeting_id |-> ""]

\* event types the webhook receives
EventTypes == {"Transcription completed", "Meeting started"}

\* meetings offered to the indexer; "m0" is the id of no row
MeetingIds == {"m1", "m2"}
RequestIds == MeetingIds \cup {"m0"}
Indexers == 1..NumIndexers
\* before: the rows the meeting had when reindex_meeting was called
NoIndexer ==
    [pc |-> "idle", op |-> "", meeting_id |-> "", chunks |-> <<>>, before |-> {}]

\* A transcript is modelled by its length; Null is NULL, Blank is a text of
\* whitespace only.
Blank == 0 - 2
TranscriptChoices == {Null, Blank, 700, 1800, 2600}

\* `failed` is history kept for the retry property only: under Spec it stays
\* NotRecorded, under SpecRetry it starts empty and records every embedding
\* failure of a message that is not stored
NotRecorded == {<<0, 0>>}

Recorded(k) == IF failed = NotRecorded THEN failed ELSE failed \cup {k}

WatcherIdleWith(f) ==
    /\ failed = f
    /\ telegram_chats = [c \in ChatIds |->
                            [last_synced_message_id |-> Null, is_active |-> TRUE]]
    /\ telegram_messages = {}
    /\ telegram_embeddings = {}
    /\ history = [c \in ChatIds |-> <<>>]
    /\ wpc = "down"
    /\ watched = {}
    /\ pc = [w \in Writers |-> "idle"]
    /\ cur = [w \in Writers |-> NoMsg]
    /\ txn = [w \in Writers |-> EmptyTxn]
    /\ catchup = NoCatchup
    /\ sync = NoSync
    /\ calls = {}
    /\ returned = "none"

WatcherIdle == WatcherIdleWith(NotRecorded)

WebhookIdle ==
    /\ meetings = {}
    /\ hook = [h \in Hooks |-> NoHook]

IndexIdle ==
    /\ transcript = [m \in MeetingIds |-> Null]
    /\ embeddings = {}
    /\ indexer = [x \in Indexers |-> NoIndexer]

\* no search has been called
NotCalled == [called |-> FALSE, rows |-> <<>>]

\* the call returned rows
Returned(rows) == [called |-> TRUE, rows |-> rows]

\* None, for an optional client id, an optional string and an optional DateRange
NoClient == "None"
NoStr == <<"None">>
NoRange == [start |-> Null, end |-> Null]

NoRequest ==
    [max_chunks_per_meeting |-> 0, max_total_chunks |-> 0, min_similarity |-> 0,
     client_id |-> NoClient, title_filter |-> NoStr, date_range |-> NoRange]

SearchIdle ==
    /\ corpus = {}
    /\ request = NoRequest
    /\ results = NotCalled
    /\ nearest = NotCalled

\* _parse_date_range has not been called
NotParsed == [called |-> FALSE, value |-> NoRange]

DateIdle ==
    /\ question = <<>>
    /\ now = [year |-> 2026, month |-> 11, day |-> 5,
              hour |-> 12, minute |-> 0, second |-> 0]
    /\ parsed = NotParsed

\* None, for an optional str
None == "<None>"

SettingKeys == {"min_similarity", "custom"}

NoRow == [value |-> None, description |-> None]

NoCall == [op |-> "none", key |-> "", value |-> None, result |-> None]

SettingsIdle ==
    /\ settings = [k \in SettingKeys |-> NoRow]
    /\ setting_call = NoCall

\* get_quarterly_stats has not been called since the last write
NoStats == [quarter |-> None]

HypothesesIdle ==
    /\ hypotheses = <<>>
    /\ stats = NoStats

\* ask has not been called
NotAsked ==
    [called |-> FALSE, raised |-> "", value |-> <<>>, llm_calls |-> 0,
     retrieved |-> FALSE, meeting_sources |-> <<>>, telegram_sources |-> <<>>,
     attempts |-> <<>>, telegram_attempts |-> <<>>,
     found |-> <<>>, telegram_found |-> <<>>, context |-> <<>>,
     title_filter |-> NoStr, telegram_client_filter |-> NoStr, date_range |-> NoRange,
     client_id |-> NoClient, search_telegram |-> FALSE]

\* the endpoint has not been called
NoResponse == [called |-> FALSE, status_code |-> 0, answer |-> "", sources |-> <<>>]

AskIdle ==
    /\ catalog = {}
    /\ rooms = {}
    /\ messages = {}
    /\ answer = NotAsked
    /\ response = NoResponse

\* main() has not been called
NotStarted ==
    [main |-> "start", task |-> "none", connected |-> FALSE, handlers |-> FALSE,
     stop_event |-> FALSE, cancel_requested |-> FALSE, signals |-> 0, passes |-> 0,
     live |-> 0, log |-> <<>>]

MainIdle == proc = NotStarted

AppIdle == SearchIdle /\ DateIdle /\ SettingsIdle /\ HypothesesIdle /\ AskIdle /\ MainIdle

Init == WatcherIdle /\ WebhookIdle /\ IndexIdle /\ AppIdle

----------------------------------------------------------------------------
(***************************************************************************)
(* The store: constraints and row constructors                             *)
(***************************************************************************)
\* the table without its unique constraint
UqTelegramMessage_dropped(k, existing) == FALSE

\* UniqueConstraint("chat_id", "message_id", name="uq_telegram_message"):
\* TRUE when inserting key k collides with the keys in existing
UqTelegramMessage(k, existing) == k \in existing

\* an embedding numbered from 1
Emb_fromOne(r) == [chat_id |-> r.chat_id, message_id |-> r.message_id, writer |-> r.writer,
                   chunk_text |-> r.text, chunk_index |-> 1]

\* the TelegramEmbedding built for a message row
Emb(r) == [chat_id |-> r.chat_id, message_id |-> r.message_id, writer |-> r.writer,
           chunk_text |-> r.text, chunk_index |-> 0]

\* update(TelegramChat).values(last_synced_message_id=message_id)
NewCursor(current, message_id) == message_id

\* chat-session methods called by main() at start-up and at shutdown
StartCalls == {"on", "start", "get_me"}
StopCalls == {"disconnect"}
\* chat-session methods called by TelegramSyncService._get_client
ConnectCalls == {"connect", "is_user_authorized", "get_me"}
\* entity lookup: get_entity, with iter_dialogs as the fallback
LookupCalls(lookup) ==
    IF lookup = "entity" THEN {"get_entity"} ELSE {"get_entity", "iter_dialogs"}
\* an iteration that also acknowledges what it read
IterCalls_ack == {"iter_messages", "send_read_acknowledge"}

\* the message iteration of catchup_chat and of sync_chat_messages
IterCalls == {"iter_messages"}

\* `msg.text and len(msg.text) >= MIN_TEXT_LENGTH`
Indexable(text) == ~Falsy(text) /\ text >= MIN_TEXT_LENGTH

----------------------------------------------------------------------------
(***************************************************************************)
(* MessageHandler._save_and_index_message, one action per await point      *)
(***************************************************************************)
\* the call of writer w returns v; an exception path passes clean = FALSE
Return(w, v, clean) ==
    /\ pc' = [pc EXCEPT ![w] = "idle"]
    /\ cur' = [cur EXCEPT ![w] = NoMsg]
    /\ txn' = [txn EXCEPT ![w] = EmptyTxn]
    /\ returned' = v
    /\ catchup' = IF w = Rec
                    THEN [catchup EXCEPT !.clean = @ /\ clean]
                    ELSE catchup

\* the call without its duplicate SELECT
SaveCheck_noSelect(w) ==
    /\ UNCHANGED <<webhookVars, indexVars, appVars, failed>>
    /\ pc[w] = "check"
    /\ IF ~(cur[w].text # NoText /\ cur[w].text # 0 /\ cur[w].text >= MIN_TEXT_LENGTH)
         THEN /\ pc' = [pc EXCEPT ![w] = "idle"]
              /\ cur' = [cur EXCEPT ![w] = NoMsg]
              /\ returned' = "false"
         ELSE /\ pc' = [pc EXCEPT ![w] = "flush"]
              /\ returned' = "none"
              /\ UNCHANGED cur
    /\ calls' = {}
    /\ UNCHANGED <<telegram_chats, telegram_messages, telegram_embeddings,
                   history, wpc, watched, sync, txn, catchup>>

\* lines 70-81: length test, then the duplicate SELECT
SaveCheck(w) ==
    /\ UNCHANGED <<webhookVars, indexVars, appVars, failed>>
    /\ pc[w] = "check"
    /\ IF ~Indexable(cur[w].text) \/ Key(cur[w]) \in CommittedKeys
         THEN Return(w, "false", TRUE)
         ELSE /\ pc' = [pc EXCEPT ![w] = "flush"]
              /\ returned' = "none"
              /\ UNCHANGED <<cur, txn, catchup>>
    /\ calls' = {}
    /\ UNCHANGED <<telegram_chats, telegram_messages, telegram_embeddings,
                   history, wpc, watched, sync>>

\* lines 73-79: opening the session or the duplicate SELECT raises.  The
\* statement stands before the try block, so the exception leaves
\* _save_and_index_message: on_new_message logs it, catchup_chat catches it in
\* its outer handler and returns 0, which ends the walk of the room.
SaveCheckRaises(w) ==
    /\ UNCHANGED <<webhookVars, indexVars, appVars, failed>>
    /\ pc[w] = "check"
    /\ Indexable(cur[w].text)
    /\ pc' = [pc EXCEPT ![w] = "idle"]
    /\ cur' = [cur EXCEPT ![w] = NoMsg]
    /\ returned' = "raised"
    /\ catchup' = IF w = Rec
                    THEN [catchup EXCEPT !.pc = "room", !.clean = FALSE]
                    ELSE catchup
    /\ calls' = {}
    /\ UNCHANGED <<telegram_chats, telegram_messages, telegram_embeddings,
                   history, wpc, watched, sync, txn>>

\* the message row committed on its own before the embedding is requested
SaveFlush_commitsRow(w) ==
    /\ UNCHANGED <<webhookVars, indexVars, appVars>>
    /\ pc[w] = "flush"
    /\ Key(cur[w]) \notin LockedKeys(w)
    /\ IF Key(cur[w]) \in CommittedKeys
         THEN /\ Return(w, "false", FALSE)
              /\ UNCHANGED <<telegram_messages, failed>>
         ELSE \E embedded \in BOOLEAN :
                LET r == Row(cur[w].chat_id, cur[w].message_id, cur[w].text, w) IN
                IF embedded
                  THEN /\ txn' = [txn EXCEPT ![w].rows = {r}, ![w].embs = {Emb(r)}]
                       /\ pc' = [pc EXCEPT ![w] = "commit"]
                       /\ returned' = "none"
                       /\ UNCHANGED <<cur, catchup, telegram_messages, failed>>
                  ELSE /\ Return(w, "false", FALSE)
                       /\ telegram_messages' = telegram_messages \cup {r}
                       /\ failed' = Recorded(Key(cur[w]))
    /\ calls' = {}
    /\ UNCHANGED <<telegram_chats, telegram_embeddings, history, wpc, watched, sync>>

\* lines 83-106: INSERT of the message (flush), then embed_query
SaveFlush(w) ==
    /\ UNCHANGED <<webhookVars, indexVars, appVars>>
    /\ pc[w] = "flush"
    \* the INSERT waits while another open transaction holds the same key
    /\ ~UqTelegramMessage(Key(cur[w]), LockedKeys(w))
    /\ IF UqTelegramMessage(Key(cur[w]), CommittedKeys)
         THEN Return(w, "false", FALSE) /\ UNCHANGED failed
         ELSE \E embedded \in BOOLEAN :
                IF embedded
                  THEN LET r == Row(cur[w].chat_id, cur[w].message_id, cur[w].text, w) IN
                       /\ txn' = [txn EXCEPT ![w].rows = {r}, ![w].embs = {Emb(r)}]
                       /\ pc' = [pc EXCEPT ![w] = "commit"]
                       /\ returned' = "none"
                       /\ UNCHANGED <<cur, catchup, failed>>
                  ELSE /\ Return(w, "false", FALSE)
                       /\ failed' = Recorded(Key(cur[w]))
    /\ calls' = {}
    /\ UNCHANGED <<telegram_chats, telegram_messages, telegram_embeddings,
                   history, wpc, watched, sync>>

\* lines 108-122: UPDATE telegram_chats and COMMIT, or the except branch
\* with rollback when a statement fails
SaveCommit(w) ==
    /\ UNCHANGED <<webhookVars, indexVars, appVars>>
    /\ pc[w] = "commit"
    /\ \E ok \in BOOLEAN :
         IF ok
           THEN /\ telegram_messages' = telegram_messages \cup txn[w].rows
                /\ telegram_embeddings' = telegram_embeddings \cup txn[w].embs
                /\ telegram_chats' = [telegram_chats EXCEPT
                        ![cur[w].chat_id].last_synced_message_id =
                            NewCursor(@, cur[w].message_id)]
                /\ failed' = failed \ {Key(cur[w])}
                /\ Return(w, "true", TRUE)
           ELSE /\ Return(w, "false", FALSE)
                /\ UNCHANGED <<telegram_chats, telegram_messages, telegram_embeddings,
                               failed>>
    /\ calls' = {}
    /\ UNCHANGED <<history, wpc, watched, sync>>

----------------------------------------------------------------------------
(***************************************************************************)
(* The chat network and the watcher process                                *)
(***************************************************************************)
\* the live task that takes the next event: the lowest idle one
FreeLive == {p \in Live : pc[p] = "idle" /\ \A q \in Live : q < p => pc[q] # "idle"}

\* A message is posted in chat c.  Its NewMessage event is either delivered
\* to on_new_message -> process_message, or lost.
Post(c, kind, delivered) ==
    /\ UNCHANGED <<webhookVars, indexVars, appVars, failed>>
    /\ Len(history[c]) < MaxMsgId
    /\ history' = [history EXCEPT ![c] = Append(@, TextOf(kind, Len(@) + 1))]
    /\ IF delivered
         THEN /\ wpc = "running"
              /\ c \in watched
              /\ \E p \in FreeLive :
                   /\ pc' = [pc EXCEPT ![p] = "check"]
                   /\ cur' = [cur EXCEPT ![p] =
                        [chat_id |-> c, message_id |-> Len(history[c]) + 1,
                         text |-> TextOf(kind, Len(history[c]) + 1)]]
         ELSE UNCHANGED <<pc, cur>>
    /\ calls' = {}
    /\ returned' = "none"
    /\ UNCHANGED <<telegram_chats, telegram_messages, telegram_embeddings,
                   wpc, watched, txn, catchup, sync>>

\* main(): read the active chat ids, subscribe, connect
WatcherStart ==
    /\ UNCHANGED <<webhookVars, indexVars, appVars, failed>>
    /\ wpc = "down"
    /\ wpc' = "running"
    /\ watched' = {c \in ChatIds : telegram_chats[c].is_active}
    /\ calls' = StartCalls
    /\ returned' = "none"
    /\ UNCHANGED <<telegram_chats, telegram_messages, telegram_embeddings,
                   history, pc, cur, txn, catchup, sync>>

\* main(): shutdown; sessions still open are rolled back
WatcherStop ==
    /\ UNCHANGED <<webhookVars, indexVars, appVars, failed>>
    /\ wpc = "running"
    /\ wpc' = "stopped"
    /\ watched' = {}
    /\ pc' = [w \in Writers |-> "idle"]
    /\ cur' = [w \in Writers |-> NoMsg]
    /\ txn' = [w \in Writers |-> EmptyTxn]
    /\ catchup' = NoCatchup
    /\ calls' = StopCalls
    /\ returned' = "none"
    /\ UNCHANGED <<telegram_chats, telegram_messages, telegram_embeddings,
                   history, sync>>

----------------------------------------------------------------------------
(***************************************************************************)
(* CatchupService: catchup_all_chats and catchup_chat                      *)
(***************************************************************************)
\* message ids of chat c that iter_messages(min_id=pos, reverse=True) still yields
Newer(c, pos) == {i \in 1..Len(history[c]) : i > pos}

Lowest(S) == CHOOSE i \in S : \A j \in S : i <= j

\* catchup_all_chats: snapshot of the active chats with their cursors
CatchupAllChats ==
    /\ UNCHANGED <<webhookVars, indexVars, appVars, failed>>
    /\ wpc = "running"
    /\ catchup.pc \in {"idle", "done"}
    /\ catchup' = [NoCatchup EXCEPT
                      !.pc = "room",
                      !.chats = {[id |-> c,
                                  min_id |-> telegram_chats[c].last_synced_message_id] :
                                 c \in {d \in ChatIds : telegram_chats[d].is_active}},
                      !.clean = TRUE]
    /\ calls' = {}
    /\ returned' = "none"
    /\ UNCHANGED <<telegram_chats, telegram_messages, telegram_embeddings,
                   history, wpc, watched, pc, cur, txn, sync>>

\* the for loop of catchup_all_chats ends
CatchupDone ==
    /\ UNCHANGED <<webhookVars, indexVars, appVars, failed>>
    /\ catchup.pc = "room"
    /\ catchup.chats = {}
    /\ catchup' = [catchup EXCEPT !.pc = "done"]
    /\ calls' = {}
    /\ returned' = "none"
    /\ UNCHANGED <<telegram_chats, telegram_messages, telegram_embeddings,
                   history, wpc, watched, pc, cur, txn, sync>>

\* catchup_chat, lines 73-98: entity lookup, then iter_messages is opened.
\* lookup: "entity" get_entity succeeds; "dialogs" it raises and iter_dialogs
\* finds the chat; "missing" no entity is found or the fallback raises.
CatchupChat(c, lookup) ==
    /\ UNCHANGED <<webhookVars, indexVars, appVars, failed>>
    /\ catchup.pc = "room"
    /\ \E ch \in catchup.chats :
         /\ ch.id = c
         /\ IF lookup = "missing"
              THEN /\ catchup' = [catchup EXCEPT !.chats = @ \ {ch}, !.clean = FALSE]
                   /\ calls' = LookupCalls(lookup)
              ELSE /\ catchup' = [catchup EXCEPT
                                     !.pc = "iter",
                                     !.chats = @ \ {ch},
                                     !.chat_id = ch.id,
                                     !.pos = OrZero(ch.min_id)]
                   /\ calls' = LookupCalls(lookup) \cup IterCalls
    /\ returned' = "none"
    /\ UNCHANGED <<telegram_chats, telegram_messages, telegram_embeddings,
                   history, wpc, watched, pc, cur, txn, sync>>

\* catchup_chat, lines 92-111: one turn of `async for msg in iter_messages`
CatchupNext ==
    /\ UNCHANGED <<webhookVars, indexVars, appVars, failed>>
    /\ catchup.pc = "iter"
    /\ pc[Rec] = "idle"
    /\ LET c == catchup.chat_id
           ids == Newer(c, catchup.pos)
       IN IF ids = {}
            THEN /\ catchup' = [catchup EXCEPT !.pc = "room"]
                 /\ UNCHANGED <<pc, cur>>
            ELSE LET i == Lowest(ids) IN
                 /\ catchup' = [catchup EXCEPT !.pos = i]
                 /\ IF Indexable(history[c][i])
                      THEN /\ pc' = [pc EXCEPT ![Rec] = "check"]
                           /\ cur' = [cur EXCEPT ![Rec] =
                                [chat_id |-> c, message_id |-> i, text |-> history[c][i]]]
                      ELSE UNCHANGED <<pc, cur>>
    /\ calls' = IterCalls
    /\ returned' = "none"
    /\ UNCHANGED <<telegram_chats, telegram_messages, telegram_embeddings,
                   history, wpc, watched, txn, sync>>

\* catchup_chat, lines 113-115: the iteration raises; the room is abandoned
CatchupFail ==
    /\ UNCHANGED <<webhookVars, indexVars, appVars, failed>>
    /\ catchup.pc = "iter"
    /\ pc[Rec] = "idle"
    /\ catchup' = [catchup EXCEPT !.pc = "room", !.clean = FALSE]
    /\ calls' = IterCalls
    /\ returned' = "none"
    /\ UNCHANGED <<telegram_chats, telegram_messages, telegram_embeddings,
                   history, wpc, watched, pc, cur, txn, sync>>

----------------------------------------------------------------------------
(***************************************************************************)
(* TelegramSyncService.sync_chat_messages (backfill)                       *)
(***************************************************************************)
Keys(rows) == {Key(r) : r \in rows}

\* lines 139-162: load the chat, connect, find the entity, read the cursor.
\* lookup "missing" raises ValueError before anything is read or written.
SyncStart(c, lookup) ==
    /\ UNCHANGED <<webhookVars, indexVars, appVars, failed>>
    /\ sync.pc = "idle"
    /\ IF lookup = "missing"
         THEN /\ sync' = sync
              /\ calls' = ConnectCalls \cup LookupCalls(lookup)
         ELSE /\ sync' = [NoSync EXCEPT
                             !.pc = "iter",
                             !.chat_id = c,
                             !.last_synced_id = OrZero(telegram_chats[c].last_synced_message_id),
                             !.loaded = telegram_chats[c].last_synced_message_id,
                             !.pos = OrZero(telegram_chats[c].last_synced_message_id)]
              /\ calls' = ConnectCalls \cup LookupCalls(lookup) \cup IterCalls
    /\ returned' = "none"
    /\ UNCHANGED <<telegram_chats, telegram_messages, telegram_embeddings,
                   history, wpc, watched, pc, cur, txn, catchup>>

\* lines 165-230: one turn of the loop.  The duplicate SELECT autoflushes the
\* row added by the previous turn; a unique violation there leaves the session
\* unusable, so every later statement and the final commit raise.
SyncNext ==
    /\ UNCHANGED <<webhookVars, indexVars, appVars, failed>>
    /\ sync.pc = "iter"
    /\ LET c == sync.chat_id
           ids == Newer(c, sync.pos)
       IN IF ids = {}
            THEN sync' = [sync EXCEPT !.pc = "final"]
            ELSE LET i == Lowest(ids)
                     text == history[c][i]
                     seen == [sync EXCEPT !.pos = i]
                 IN IF Falsy(text)
                      THEN sync' = seen
                      ELSE /\ \A k \in Keys(sync.unflushed) :
                                 ~UqTelegramMessage(k, LockedKeys(Backfill))
                           /\ IF \E k \in Keys(sync.unflushed) :
                                     UqTelegramMessage(k, CommittedKeys)
                                THEN sync' = NoSync
                                ELSE LET fl == sync.flushed \cup sync.unflushed IN
                                     IF <<c, i>> \in CommittedKeys \cup Keys(fl)
                                       THEN sync' = [seen EXCEPT !.flushed = fl,
                                                                 !.unflushed = {}]
                                       ELSE sync' = [seen EXCEPT
                                              !.flushed = fl,
                                              !.unflushed = {Row(c, i, text, Backfill)},
                                              !.new_messages = @ + 1,
                                              !.last_synced_id = Max(@, i),
                                              !.pc = IF (sync.new_messages + 1) % COMMIT_EVERY = 0
                                                       THEN "commit" ELSE "iter"]
    /\ calls' = IterCalls
    /\ returned' = "none"
    /\ UNCHANGED <<telegram_chats, telegram_messages, telegram_embeddings,
                   history, wpc, watched, pc, cur, txn, catchup>>

\* lines 223-225 and 233-234: chat.last_synced_message_id = last_synced_id; commit
SyncCommit ==
    /\ UNCHANGED <<webhookVars, indexVars, appVars, failed>>
    /\ sync.pc \in {"commit", "final"}
    /\ \A k \in Keys(sync.unflushed) : ~UqTelegramMessage(k, LockedKeys(Backfill))
    /\ IF \E k \in Keys(sync.unflushed) : UqTelegramMessage(k, CommittedKeys)
         THEN /\ sync' = NoSync
              /\ UNCHANGED <<telegram_chats, telegram_messages>>
         ELSE /\ telegram_messages' = telegram_messages \cup sync.flushed \cup sync.unflushed
              /\ telegram_chats' =
                     IF sync.last_synced_id # sync.loaded
                       THEN [telegram_chats EXCEPT
                               ![sync.chat_id].last_synced_message_id = sync.last_synced_id]
                       ELSE telegram_chats
              /\ sync' = IF sync.pc = "commit"
                           THEN [sync EXCEPT !.pc = "iter", !.flushed = {},
                                             !.unflushed = {},
                                             !.loaded = sync.last_synced_id]
                           ELSE NoSync
    /\ calls' = {}
    /\ returned' = "none"
    /\ UNCHANGED <<telegram_embeddings, history, wpc, watched, pc, cur, txn, catchup>>

----------------------------------------------------------------------------
Lookups == {"entity", "dialogs", "missing"}

Next ==
    \/ \E c \in ChatIds, kind \in TextKinds, delivered \in BOOLEAN :
           Post(c, kind, delivered)
    \/ WatcherStart
    \/ WatcherStop
    \/ \E w \in Writers : SaveCheck(w)
    \/ \E w \in Writers : SaveCheckRaises(w)
    \/ \E w \in Writers : SaveFlush(w)
    \/ \E w \in Writers : SaveCommit(w)
    \/ CatchupAllChats
    \/ \E c \in ChatIds, lookup \in Lookups : CatchupChat(c, lookup)
    \/ CatchupDone
    \/ CatchupNext
    \/ CatchupFail
    \/ \E c \in ChatIds, lookup \in Lookups : SyncStart(c, lookup)
    \/ SyncNext
    \/ SyncCommit

Spec == Init /\ [][Next]_vars

\* the same program with the history of embedding failures recorded
RetryInit == WatcherIdleWith({}) /\ WebhookIdle /\ IndexIdle /\ AppIdle

SpecRetry == RetryInit /\ [][Next]_vars

----------------------------------------------------------------------------
WebhookInit == WatcherIdle /\ WebhookIdle /\ IndexIdle /\ AppIdle

IndexInit ==
    /\ WatcherIdle
    /\ WebhookIdle
    /\ AppIdle
    /\ transcript \in [MeetingIds -> TranscriptChoices]
    /\ embeddings = {}
    /\ indexer = [x \in Indexers |-> NoIndexer]

----------------------------------------------------------------------------
(***************************************************************************)
(* Fireflies webhook: fireflies_webhook and process_fireflies_meeting      *)
(***************************************************************************)
\* the meetings table without the unique constraint on fireflies_id
UqFirefliesId_dropped(f, rows) == FALSE

\* fireflies_id ... unique=True: TRUE when a row with fireflies_id f exists
UqFirefliesId(f, rows) == \E r \in rows : r.fireflies_id = f

\* MeetingRepository.get_by_fireflies_id
get_by_fireflies_id(f) == {r \in meetings : r.fireflies_id = f}

\* POST /api/webhook/fireflies: only "Transcription completed" is queued
Webhook(h, f, eventType) ==
    /\ UNCHANGED <<watcherVars, indexVars, appVars>>
    /\ hook[h].pc = "idle"
    /\ hook' = IF eventType = "Transcription completed"
                 THEN [hook EXCEPT ![h] = [pc |-> "fetch", meeting_id |-> f]]
                 ELSE hook
    /\ UNCHANGED meetings

\* lines 35-40: get_transcript returns data, returns nothing, or raises
HookFetch(h, outcome) ==
    /\ UNCHANGED <<watcherVars, indexVars, appVars>>
    /\ hook[h].pc = "fetch"
    /\ hook' = IF outcome = "data"
                 THEN [hook EXCEPT ![h].pc = "check"]
                 ELSE [hook EXCEPT ![h] = NoHook]
    /\ UNCHANGED meetings

\* the existence check that never finds the row
HookCheck_blind(h) ==
    /\ UNCHANGED <<watcherVars, indexVars, appVars>>
    /\ hook[h].pc = "check"
    /\ hook' = [hook EXCEPT ![h].pc = "create"]
    /\ UNCHANGED meetings

\* lines 43-48: the existence check
HookCheck(h) ==
    /\ UNCHANGED <<watcherVars, indexVars, appVars>>
    /\ hook[h].pc = "check"
    /\ hook' = IF get_by_fireflies_id(hook[h].meeting_id) # {}
                 THEN [hook EXCEPT ![h] = NoHook]
                 ELSE [hook EXCEPT ![h].pc = "create"]
    /\ UNCHANGED meetings

\* lines 51-61 and MeetingRepository.create: add and commit; a unique
\* violation raises and nothing is written
HookCreate(h) ==
    /\ UNCHANGED <<watcherVars, indexVars, appVars>>
    /\ hook[h].pc = "create"
    /\ Cardinality(meetings) < MaxMeetings
    /\ meetings' = IF UqFirefliesId(hook[h].meeting_id, meetings)
                     THEN meetings
                     ELSE meetings \cup {[id |-> Cardinality(meetings) + 1,
                                          fireflies_id |-> hook[h].meeting_id]}
    /\ hook' = [hook EXCEPT ![h] = NoHook]

FetchOutcomes == {"data", "none", "error"}

WebhookNext ==
    \/ \E h \in Hooks, f \in FirefliesIds, eventType \in EventTypes : Webhook(h, f, eventType)
    \/ \E h \in Hooks, outcome \in FetchOutcomes : HookFetch(h, outcome)
    \/ \E h \in Hooks : HookCheck(h)
    \/ \E h \in Hooks : HookCreate(h)

SpecWebhook == WebhookInit /\ [][WebhookNext]_vars

----------------------------------------------------------------------------
(***************************************************************************)
(* EmbeddingService.index_meeting and reindex_meeting                      *)
(***************************************************************************)
\* chunk_transcript: no chunk for an empty or blank text, else windows of
\* CHUNK_SIZE characters that overlap by CHUNK_OVERLAP, in text order
NumChunks(len) ==
    IF len <= CHUNK_SIZE THEN 1
    ELSE 1 + ((len - CHUNK_SIZE) + (CHUNK_SIZE - CHUNK_OVERLAP) - 1)
                 \div (CHUNK_SIZE - CHUNK_OVERLAP)

chunk_transcript(text) ==
    IF text = Null \/ text = Blank \/ text = 0
      THEN <<>>
      ELSE [i \in 1..NumChunks(text) |->
              [from |-> (i - 1) * (CHUNK_SIZE - CHUNK_OVERLAP),
               to |-> IF (i - 1) * (CHUNK_SIZE - CHUNK_OVERLAP) + CHUNK_SIZE < text
                        THEN (i - 1) * (CHUNK_SIZE - CHUNK_OVERLAP) + CHUNK_SIZE
                        ELSE text]]

EmbeddingsOfMeeting(m) == {e \in embeddings : e.meeting_id = m}

\* a request for index_meeting or reindex_meeting arrives
IndexStart(x, m, op) ==
    /\ UNCHANGED <<watcherVars, webhookVars, appVars>>
    /\ indexer[x].pc = "idle"
    /\ indexer' = [indexer EXCEPT ![x] =
                      [pc |-> IF op = "reindex" THEN "delete" ELSE "check",
                       op |-> op, meeting_id |-> m, chunks |-> <<>>,
                       before |-> IF op = "reindex"
                                    THEN {e \in embeddings : e.meeting_id = m}
                                    ELSE {}]]
    /\ UNCHANGED <<transcript, embeddings>>

\* reindex_meeting, lines 149-154: DELETE the rows of the meeting and commit
ReindexDelete(x) ==
    /\ UNCHANGED <<watcherVars, webhookVars, appVars>>
    /\ indexer[x].pc = "delete"
    /\ embeddings' = embeddings \ EmbeddingsOfMeeting(indexer[x].meeting_id)
    /\ indexer' = [indexer EXCEPT ![x].pc = "check"]
    /\ UNCHANGED transcript

\* index_meeting, lines 35-59: load the meeting, test for existing rows,
\* chunk, embed; embed_documents may raise
IndexCheck(x) ==
    /\ UNCHANGED <<watcherVars, webhookVars, appVars>>
    /\ indexer[x].pc = "check"
    /\ LET m == indexer[x].meeting_id IN
       IF \/ m \notin MeetingIds
          \/ transcript[m] = Null \/ transcript[m] = 0
          \/ EmbeddingsOfMeeting(m) # {}
          \/ chunk_transcript(transcript[m]) = <<>>
         THEN indexer' = [indexer EXCEPT ![x] = NoIndexer]
         ELSE \E embedded \in BOOLEAN :
                indexer' = IF embedded
                             THEN [indexer EXCEPT ![x].pc = "commit",
                                      ![x].chunks = chunk_transcript(transcript[m])]
                             ELSE [indexer EXCEPT ![x] = NoIndexer]
    /\ UNCHANGED <<transcript, embeddings>>

\* index_meeting, lines 62-73: add one row per chunk and commit
IndexCommit(x) ==
    /\ UNCHANGED <<watcherVars, webhookVars, appVars>>
    /\ indexer[x].pc = "commit"
    /\ embeddings' = embeddings \cup
          {[meeting_id |-> indexer[x].meeting_id, chunk_index |-> i - 1,
            chunk_text |-> indexer[x].chunks[i], request |-> x] :
           i \in 1..Len(indexer[x].chunks)}
    /\ indexer' = [indexer EXCEPT ![x] = NoIndexer]
    /\ UNCHANGED transcript

IndexOps == {"index", "reindex"}

IndexNext ==
    \/ \E x \in Indexers, m \in RequestIds, op \in IndexOps : IndexStart(x, m, op)
    \/ \E x \in Indexers : ReindexDelete(x)
    \/ \E x \in Indexers : IndexCheck(x)
    \/ \E x \in Indexers : IndexCommit(x)

SpecIndex == IndexInit /\ [][IndexNext]_vars

----------------------------------------------------------------------------
(***************************************************************************)
(* Properties of the chat ingestor                                         *)
(***************************************************************************)
Cursor(c) == telegram_chats[c].last_synced_message_id

StoreUnchanged ==
    UNCHANGED <<telegram_chats, telegram_messages, telegram_embeddings>>

EmbeddingsOf(r) ==
    {e \in telegram_embeddings :
        e.chat_id = r.chat_id /\ e.message_id = r.message_id /\ e.writer = r.writer}

\* the call of writer w ends in this step by returning (not by shutdown)
Returns(w) == pc[w] # "idle" /\ pc'[w] = "idle" /\ wpc' = wpc

\* C1: under every interleaving of the live handler, the reconciler and the
\* backfill there is at most one telegram_messages row per (chat_id, message_id).
C1_UniqueMessage ==
    \A r1, r2 \in telegram_messages : Key(r1) = Key(r2) => r1 = r2

\* a watcher session is about to insert a message the backfill committed
\* after that session's duplicate check
C1_Witness ==
    \E w \in Writers : /\ pc[w] = "flush"
                       /\ \E r \in telegram_messages :
                            Key(r) = Key(cur[w]) /\ r.writer = Backfill

\* C2: last_synced_message_id of a room never decreases.
C2_CursorNeverDecreases ==
    [][\A c \in ChatIds : Cursor(c)' >= Cursor(c)]_vars

\* C3: after every committed live or reconciler save the cursor of the room
\* is at least the message_id of every row stored for the room.
C3_CursorCoversRows ==
    [][\A w \in Writers :
          (Returns(w) /\ returned' = "true") =>
              \A r \in telegram_messages' :
                  r.chat_id = cur[w].chat_id =>
                      r.message_id <= telegram_chats'[cur[w].chat_id].last_synced_message_id]_vars

\* C4: every row written by the watcher has exactly one embedding, with
\* chunk_index 0 and chunk_text equal to the text of the message, and a call
\* with an absent or too short text changes no row and no cursor.
C4_RowsIndexed ==
    \A r \in telegram_messages :
        r.writer \in Writers =>
            /\ Indexable(r.text)
            /\ Cardinality(EmbeddingsOf(r)) = 1
            /\ \A e \in EmbeddingsOf(r) : e.chunk_index = 0 /\ e.chunk_text = r.text

\* a call with an absent or too short text changes no row and no cursor
C4_ShortDropped ==
    \A w \in Writers :
        (pc[w] = "check" /\ (cur[w].text = NoText \/ cur[w].text < MIN_TEXT_LENGTH)
           /\ Returns(w)) => StoreUnchanged

\* C4: always every watcher-written row has its one embedding (chunk_index 0,
\* chunk_text = text), and every step of a call with an absent or too short
\* text leaves rows, embeddings and cursors unchanged; no watcher-written row
\* has such a text.
C4_OneEmbeddingPerWatcherRow == [](C4_RowsIndexed) /\ [][C4_ShortDropped]_vars

\* the watcher has stored and indexed one message, and the call for a
\* message that is too short or has no text has just returned False
C4_Witness ==
    /\ returned = "false"
    /\ Cardinality(telegram_messages) = 1
    /\ \E r \in telegram_messages : r.writer \in Writers /\ EmbeddingsOf(r) # {}
    /\ \E c \in ChatIds : \E i \in 1..Len(history[c]) :
          ~Indexable(history[c][i]) /\ <<c, i>> \notin CommittedKeys

\* C5: a call that fails after the duplicate check (embedding, UPDATE or
\* COMMIT) leaves no message row, no embedding and no cursor change, and
\* returns False.
C5_FailureRollsBack ==
    [][\A w \in Writers :
          (pc[w] \in {"flush", "commit"} /\ Returns(w) /\ returned' # "true")
          => /\ StoreUnchanged
             /\ returned' = "false"
             /\ txn'[w] = EmptyTxn]_vars

\* a call has just returned False although every posted message is long
\* enough and nothing is stored: it failed after the duplicate check
C5_Witness ==
    /\ returned = "false"
    /\ telegram_messages = {}
    /\ \A c \in ChatIds : /\ Len(history[c]) > 0
                          /\ \A i \in 1..Len(history[c]) : Indexable(history[c][i])

\* C6: once a reconciler pass over a room has completed without error, every
\* message of at least 50 characters that was posted in the room before the
\* walk ended is stored (and indexed when the watcher stored it).
C6_PassClosesGaps ==
    (catchup.pc = "done" /\ catchup.clean /\ catchup.chat_id \in ChatIds) =>
        \A i \in 1..catchup.pos :
            Indexable(history[catchup.chat_id][i]) =>
                \E r \in telegram_messages :
                    /\ Key(r) = <<catchup.chat_id, i>>
                    /\ r.writer \in Writers => EmbeddingsOf(r) # {}

\* C7: re-driving a message whose (chat_id, message_id) is already stored
\* returns False at once (when the duplicate SELECT answers) and adds no row,
\* no embedding and no cursor change; the stored message keeps its single row.
C7_RedriveStep ==
    \A w \in Writers :
        (pc[w] = "check" /\ Key(cur[w]) \in CommittedKeys /\ pc'[w] # "check" /\ wpc' = wpc)
        => /\ StoreUnchanged
           /\ returned' # "raised" => returned' = "false"
           /\ pc'[w] = "idle"
           /\ Cardinality({r \in telegram_messages' : Key(r) = Key(cur[w])}) = 1

ReadOnlyMethods == {"start", "connect", "is_user_authorized", "get_me", "get_entity",
                    "iter_dialogs", "iter_messages", "on", "disconnect"}

C8_ReadOnlySession == calls \subseteq ReadOnlyMethods

\* the reconciler iterates a room found through the dialog list while the
\* backfill is running as well
C8_Witness ==
    /\ calls = {"get_entity", "iter_dialogs", "iter_messages"}
    /\ sync.pc = "iter"
    /\ catchup.pc = "iter"

----------------------------------------------------------------------------
(***************************************************************************)
(* Properties of the transcript ingestor                                   *)
(***************************************************************************)
MeetingsWith(f) == {r \in meetings : r.fireflies_id = f}

\* webhook task h finishes the processing of a delivery in this step
HookEnds(h) == hook[h].pc \in {"check", "create"} /\ hook'[h].pc = "idle"

\* C9: however many "Transcription completed" deliveries of one meetingId
\* are processed, in sequence or concurrently, there is never more than one
\* Meeting row with that fireflies_id; there is exactly one as soon as a
\* delivery whose transcript was fetched has been processed; and a delivery
\* processed when the row exists leaves the rows unchanged.
C9_AtMostOne == \A f \in FirefliesIds : Cardinality(MeetingsWith(f)) <= 1

\* a delivery that ends after its transcript was fetched leaves exactly one
\* row of its meetingId, and leaves the rows unchanged if the row existed
C9_DeliveryStep ==
    \A h \in Hooks :
        /\ HookEnds(h) =>
              Cardinality({r \in meetings' : r.fireflies_id = hook[h].meeting_id}) = 1
        /\ (hook[h].pc # "idle" /\ hook'[h] # hook[h]
               /\ MeetingsWith(hook[h].meeting_id) # {})
              => meetings' = meetings

C10_DenseChunks ==
    \A m \in MeetingIds :
        EmbeddingsOfMeeting(m) # {} =>
            /\ Cardinality(EmbeddingsOfMeeting(m)) = Len(chunk_transcript(transcript[m]))
            /\ \A i \in 0..(Len(chunk_transcript(transcript[m])) - 1) :
                  Cardinality({e \in EmbeddingsOfMeeting(m) : e.chunk_index = i}) = 1

\* the complete set of rows index_meeting writes for meeting m
NewSet(m) ==
    {[meeting_id |-> m, chunk_index |-> i - 1,
      chunk_text |-> chunk_transcript(transcript[m])[i]] :
     i \in 1..Len(chunk_transcript(transcript[m]))}

Content(rows) ==
    {[meeting_id |-> e.meeting_id, chunk_index |-> e.chunk_index,
      chunk_text |-> e.chunk_text] : e \in rows}

\* C11: when a reindex_meeting call ends, however it ends, the meeting has
\* either the complete set of rows it had before the call or the complete new
\* set, never none or a part.
C11_ReindexAtomic ==
    [][\A x \in Indexers :
          (/\ indexer[x].op = "reindex"
           /\ indexer[x].meeting_id \in MeetingIds
           /\ indexer[x].pc # "idle"
           /\ indexer'[x].pc = "idle")
          => LET m == indexer[x].meeting_id
                 after == {e \in embeddings' : e.meeting_id = m} IN
             \/ after = indexer[x].before
             \/ Content(after) = NewSet(m) /\ Cardinality(after) = Cardinality(NewSet(m))]_vars

----------------------------------------------------------------------------
(***************************************************************************)
(* RAGService: retrieval.  A string is a sequence of characters; a date is *)
(* a day number; a similarity is 1 - cosine distance in hundredths.        *)
(***************************************************************************)
\* str.lower() / SQL LOWER()
LowerChar(c) ==
    CASE c = "A" -> "a" [] c = "B" -> "b" [] c = "Q" -> "q"
      [] c = "_CH" -> "_ch" [] c = "_K" -> "_k" [] OTHER -> c

lower(str) == [i \in 1..Len(str) |-> LowerChar(str[i])]

\* `sub in str`, and `str LIKE '%sub%'`
Substr(sub, str) ==
    \E i \in 0..(Len(str) - Len(sub)) : SubSeq(str, i + 1, i + Len(sub)) = sub

\* NULL in a timestamp column
NoDate == [year |-> 0, month |-> 0, day |-> 0, hour |-> 0, minute |-> 0, second |-> 0]

\* dt1 <= dt2
DtLe(a, b) ==
    LET DayNo(dt) == (dt.year * 12 + dt.month) * 31 + dt.day
        SecNo(dt) == (dt.hour * 60 + dt.minute) * 60 + dt.second IN
    \/ DayNo(a) < DayNo(b)
    \/ DayNo(a) = DayNo(b) /\ SecNo(a) <= SecNo(b)

Acme == <<"A", "c", "m", "e">>
Beta == <<"B", "e", "t", "a">>
AcmePartners == Acme \o <<" ", "P", "a", "r", "t", "n", "e", "r", "s">>

\* the meetings rows the corpus is joined with
MeetingRow(m) ==
    IF m = "A"
      THEN [title |-> Acme \o <<" ", "-", " ", "Q", "1">>, client_id |-> "c1",
            date |-> [year |-> 2025, month |-> 2, day |-> 10,
                      hour |-> 0, minute |-> 0, second |-> 0]]
    ELSE IF m = "D"
      THEN [title |-> Acme \o <<" ", "-", " ", "S", "y", "n", "c">>, client_id |-> "c1",
            date |-> [year |-> 2025, month |-> 3, day |-> 3,
                      hour |-> 0, minute |-> 0, second |-> 0]]
    ELSE IF m = "C"
      THEN [title |-> AcmePartners \o <<" ", "-", " ", "Q", "2">>, client_id |-> NoClient,
            date |-> [year |-> 2025, month |-> 5, day |-> 20,
                      hour |-> 0, minute |-> 0, second |-> 0]]
      ELSE [title |-> Beta, client_id |-> NoClient, date |-> NoDate]

Joined(id, m, sim) ==
    [id |-> id, meeting_id |-> m, meeting_title |-> MeetingRow(m).title,
     client_id |-> MeetingRow(m).client_id, meeting_date |-> MeetingRow(m).date,
     similarity |-> sim]

\* a limit larger than every corpus of the model
Unbounded == MaxChunks + 8

Sims == {0 - 10, 0, 15, 90}

\* the WHERE clause built from the optional filters (a falsy filter adds no
\* condition; a comparison with NULL is not true)
Where(row, client_id, title_filter, date_range) ==
    /\ (client_id # NoClient) => row.client_id = client_id
    /\ (title_filter # NoStr /\ title_filter # <<>>)
          => Substr(lower(title_filter), lower(row.meeting_title))
    /\ (date_range # NoRange)
          => /\ row.meeting_date # NoDate
             /\ DtLe(date_range.start, row.meeting_date)
             /\ DtLe(row.meeting_date, date_range.end)

\* the orders in which the executor may deliver rows of equal sort key
TieOrders(rows) ==
    IF \A a, b \in rows : a # b => a.similarity # b.similarity
      THEN {[a \in rows |-> 0]}
      ELSE {o \in [rows -> 1..Cardinality(rows)] :
               \A a, b \in rows : a # b => o[a] # o[b]}

\* position of row a among rows sorted by ascending distance, ties by o
RowNumber(a, rows, o) ==
    1 + Cardinality({b \in rows :
                        \/ b.similarity > a.similarity
                        \/ b.similarity = a.similarity /\ o[b] < o[a]})

\* ORDER BY similarity DESC LIMIT n
OrderLimit(rows, o, n) ==
    LET sorted == [i \in 1..Cardinality(rows) |->
                      CHOOSE a \in rows : RowNumber(a, rows, o) = i] IN
    SubSeq(sorted, 1, IF n < Len(sorted) THEN n ELSE Len(sorted))

\* the row number taken over all rows, without PARTITION BY
chunk_rank_noPartition(a, rows, o) == RowNumber(a, rows, o)

\* the CTE: ROW_NUMBER() OVER (PARTITION BY meeting_id ORDER BY distance)
chunk_rank(a, rows, o) ==
    RowNumber(a, {b \in rows : b.meeting_id = a.meeting_id}, o)

\* the result lists search_similar_diversified may return
search_similar_diversified(max_chunks_per_meeting, max_total_chunks, min_similarity, client_id, title_filter, date_range) ==
    LET ranked_chunks ==
            {row \in corpus : Where(row, client_id, title_filter, date_range)} IN
    {OrderLimit({a \in ranked_chunks :
                    /\ chunk_rank(a, ranked_chunks, o1) <= max_chunks_per_meeting
                    /\ a.similarity > min_similarity},
                o2, max_total_chunks) :
       o1 \in TieOrders(ranked_chunks), o2 \in TieOrders(ranked_chunks)}

\* the result lists search_similar may return
search_similar(limit, client_id, title_filter) ==
    LET rows == {row \in corpus : Where(row, client_id, title_filter, NoRange)} IN
    {OrderLimit(rows, o, limit) : o \in TieOrders(rows)}

\* corpora of at most MaxChunks chunks over the two meetings; chunk ids are
\* labels, so one numbering of each corpus is enough
Corpora ==
    LET Code(c) == (IF c.m = "A" THEN 0 ELSE 1000) + c.sim IN
    UNION {{{Joined(i, f[i].m, f[i].sim) : i \in 1..n} :
              f \in {g \in [1..n -> [m : {"A", "B"}, sim : Sims]] :
                        \A i, j \in 1..n : i < j => Code(g[i]) <= Code(g[j])}} :
           n \in 0..MaxChunks}

\* five chunks of meeting A at 0.90..0.86 and two of meeting B at 0.85, 0.84
ExampleCorpus ==
    {Joined(i, "A", 91 - i) : i \in 1..5} \cup {Joined(i, "B", 91 - i) : i \in 6..7}

Requests ==
    [max_chunks_per_meeting : {1, 2, Unbounded},
     max_total_chunks : {1, 2, 10, Unbounded},
     min_similarity : {0, 15},
     client_id : {NoClient, "c1"},
     title_filter : {NoStr, <<>>, Acme},
     date_range : {NoRange,
                   [start |-> [year |-> 2025, month |-> 1, day |-> 1,
                               hour |-> 0, minute |-> 0, second |-> 0],
                    end |-> [year |-> 2025, month |-> 3, day |-> 31,
                             hour |-> 23, minute |-> 59, second |-> 59],
                    description |-> <<"Q", "1", " ", "2", "0", "2", "5">>]}]

SearchInit ==
    /\ WatcherIdle
    /\ WebhookIdle
    /\ IndexIdle
    /\ DateIdle
    /\ SettingsIdle
    /\ HypothesesIdle
    /\ AskIdle
    /\ MainIdle
    /\ corpus \in Corpora \cup {ExampleCorpus}
    /\ request \in Requests
    /\ results = NotCalled
    /\ nearest = NotCalled

\* a call of search_similar_diversified with the arguments of request
SearchDiversified ==
    /\ UNCHANGED <<watcherVars, webhookVars, indexVars, dateVars, settingsVars, hypothesisVars, askVars, mainVars>>
    /\ results = NotCalled
    /\ \E rows \in search_similar_diversified(
                       request.max_chunks_per_meeting, request.max_total_chunks,
                       request.min_similarity, request.client_id,
                       request.title_filter, request.date_range) :
          results' = Returned(rows)
    /\ UNCHANGED <<corpus, request, nearest>>

\* a call of search_similar with the same limit and filters
SearchSimilar ==
    /\ UNCHANGED <<watcherVars, webhookVars, indexVars, dateVars, settingsVars, hypothesisVars, askVars, mainVars>>
    /\ nearest = NotCalled
    /\ \E rows \in search_similar(request.max_total_chunks, request.client_id,
                                 request.title_filter) :
          nearest' = Returned(rows)
    /\ UNCHANGED <<corpus, request, results>>

SearchNext == SearchDiversified \/ SearchSimilar

SpecSearch == SearchInit /\ [][SearchNext]_vars

Range(seq) == {seq[i] : i \in 1..Len(seq)}

\* the rows of the corpus that pass the filters of the request with a
\* similarity above its threshold
Eligible ==
    {row \in corpus :
        /\ Where(row, request.client_id, request.title_filter, request.date_range)
        /\ row.similarity > request.min_similarity}

\* C12: the result of diversified search holds only rows that pass the filters
\* with similarity > min_similarity, at most max_per_group per meeting, each
\* outranked by fewer than max_per_group rows of its meeting, sorted by
\* similarity descending, at most max_total in all, and leaves a row out only
\* when max_per_group rows of its meeting or max_total rows at least as
\* similar are in the result; the example corpus with (2, 10, 0) gives the top
\* two of A then the two of B.
C12_DiversifiedExact ==
    results.called =>
      /\ Range(results.rows) \subseteq Eligible
      /\ \A i, j \in 1..Len(results.rows) :
            /\ (i < j => results.rows[i].similarity >= results.rows[j].similarity)
            /\ (i # j => results.rows[i] # results.rows[j])
      /\ Len(results.rows) <= request.max_total_chunks
      /\ \A r \in Range(results.rows) :
            /\ Cardinality({x \in Range(results.rows) : x.meeting_id = r.meeting_id})
                 <= request.max_chunks_per_meeting
            /\ Cardinality({x \in Eligible : /\ x.meeting_id = r.meeting_id
                                             /\ x.similarity > r.similarity})
                 < request.max_chunks_per_meeting
      /\ \A c \in Eligible \ Range(results.rows) :
            \/ /\ Len(results.rows) = request.max_total_chunks
               /\ \A r \in Range(results.rows) : r.similarity >= c.similarity
            \/ Cardinality({r \in Range(results.rows) : /\ r.meeting_id = c.meeting_id
                                                   /\ r.similarity >= c.similarity})
                 = request.max_chunks_per_meeting
      /\ (/\ corpus = ExampleCorpus
          /\ request.max_chunks_per_meeting = 2 /\ request.max_total_chunks = 10
          /\ request.min_similarity = 0 /\ request.client_id = NoClient
          /\ request.title_filter = NoStr /\ request.date_range = NoRange)
            => results.rows = <<Joined(1, "A", 90), Joined(2, "A", 89),
                           Joined(6, "B", 85), Joined(7, "B", 84)>>

\* the example: five chunks of A and two of B searched with (2, 10, 0)
C12_Witness ==
    /\ corpus = ExampleCorpus
    /\ request.max_chunks_per_meeting = 2 /\ request.max_total_chunks = 10
    /\ request.min_similarity = 0 /\ request.title_filter = NoStr
    /\ request.client_id = NoClient /\ request.date_range = NoRange
    /\ Len(results.rows) = 4
    /\ results.called

\* C13: with max_per_group and max_total unbounded and min_similarity = 0,
\* diversified search returns the same set of chunks as the unrestricted
\* nearest-neighbour search over the same filters.
C13_UnboundedIsNearest ==
    (/\ results.called /\ nearest.called
     /\ request.max_chunks_per_meeting = Unbounded
     /\ request.max_total_chunks = Unbounded
     /\ request.min_similarity = 0
     /\ request.date_range = NoRange)
      => Range(results.rows) = Range(nearest.rows)

----------------------------------------------------------------------------
(***************************************************************************)
(* Strings, regular expressions and datetime, as far as                    *)
(* RAGService._parse_date_range uses them.  A Cyrillic letter is written   *)
(* as "_" followed by its transliteration ("_k" for the letter ka).        *)
(***************************************************************************)
Digits == {"0", "1", "2", "3", "4", "5", "6", "7", "8", "9"}

\* \s
Spaces == {" "}

Cyrillic ==
    {"_a", "_b", "_v", "_g", "_d", "_e", "_zh", "_z", "_i", "_j", "_k", "_l",
     "_m", "_n", "_o", "_p", "_r", "_s", "_t", "_u", "_f", "_h", "_c", "_ch",
     "_sh", "_sch", "_y", "_q", "_eh", "_yu", "_ya"}

\* \w
WordChars == Digits \cup Cyrillic \cup {"a", "b", "c", "e", "m", "q", "t", "_"}

\* int() of a run of digits
DigitValue(c) ==
    CASE c = "0" -> 0 [] c = "1" -> 1 [] c = "2" -> 2 [] c = "3" -> 3
      [] c = "4" -> 4 [] c = "5" -> 5 [] c = "6" -> 6 [] c = "7" -> 7
      [] c = "8" -> 8 [] c = "9" -> 9

RECURSIVE int(_)
int(digits) ==
    IF digits = <<>> THEN 0
    ELSE 10 * int(SubSeq(digits, 1, Len(digits) - 1)) + DigitValue(digits[Len(digits)])

\* one element of a pattern: between lo and hi characters of cls, greedy,
\* captured as group cap (0: not captured)
El(cls, lo, hi, cap) == [cls |-> cls, lo |-> lo, hi |-> hi, cap |-> cap]

\* a literal text as a pattern
Lit(str) == [i \in 1..Len(str) |-> El({str[i]}, 1, 1, 0)]

NoMatch == [ok |-> FALSE, caps |-> {}, alt |-> 0]

\* the match of pattern elements k.. at position pos that re prefers
RECURSIVE MatchFrom(_, _, _, _)
MatchFrom(pat, k, str, pos) ==
    IF k > Len(pat) THEN [ok |-> TRUE, caps |-> {}, alt |-> 0]
    ELSE LET e == pat[k]
             fits(n) == /\ pos + n - 1 <= Len(str)
                        /\ \A i \in pos..(pos + n - 1) : str[i] \in e.cls
             top == IF e.hi < Len(str) THEN e.hi ELSE Len(str)
             ns == {n \in e.lo..top : fits(n) /\ MatchFrom(pat, k + 1, str, pos + n).ok}
         IN IF ns = {} THEN NoMatch
            ELSE LET n == CHOOSE x \in ns : \A y \in ns : y <= x
                     rest == MatchFrom(pat, k + 1, str, pos + n) IN
                 [ok |-> TRUE, alt |-> 0,
                  caps |-> rest.caps \cup
                             (IF e.cap = 0 THEN {}
                              ELSE {<<e.cap, SubSeq(str, pos, pos + n - 1)>>})]

\* re.search over the alternatives pats (in their order): the leftmost match;
\* alt is the alternative that matched
re_search(pats, str) ==
    LET starts == {i \in 1..(Len(str) + 1) :
                      \E a \in 1..Len(pats) : MatchFrom(pats[a], 1, str, i).ok} IN
    IF starts = {} THEN NoMatch
    ELSE LET i == CHOOSE x \in starts : \A y \in starts : x <= y
             a == CHOOSE x \in 1..Len(pats) :
                     /\ MatchFrom(pats[x], 1, str, i).ok
                     /\ \A y \in 1..(x - 1) : ~MatchFrom(pats[y], 1, str, i).ok
         IN [MatchFrom(pats[a], 1, str, i) EXCEPT !.alt = a]

\* match.group(g)
group(match, g) == (CHOOSE c \in match.caps : c[1] = g)[2]

\* datetime.MINYEAR, datetime.MAXYEAR
MINYEAR == 1
MAXYEAR == 9999

IsLeap(y) == (y % 4 = 0 /\ y % 100 # 0) \/ y % 400 = 0

DaysInMonth(y, m) ==
    IF m = 2 THEN (IF IsLeap(y) THEN 29 ELSE 28)
    ELSE IF m \in {4, 6, 9, 11} THEN 30 ELSE 31

\* an exception raised instead of a value
Raised(name) == [raised |-> name]

IsRaised(x) == "raised" \in DOMAIN x

\* datetime(year, month, day, hour, minute, second)
datetime(y, m, d, hh, mm, ss) ==
    IF y < MINYEAR \/ y > MAXYEAR THEN Raised("ValueError")
    ELSE IF m < 1 \/ m > 12 THEN Raised("ValueError")
    ELSE IF d < 1 \/ d > DaysInMonth(y, m) THEN Raised("ValueError")
    ELSE [year |-> y, month |-> m, day |-> d,
          hour |-> hh, minute |-> mm, second |-> ss]

\* dt - timedelta(days=n)
RECURSIVE MinusDays(_, _)
MinusDays(dt, n) ==
    IF n = 0 THEN dt
    ELSE IF dt.day > 1 THEN MinusDays([dt EXCEPT !.day = @ - 1], n - 1)
    ELSE IF dt.month > 1
      THEN MinusDays([dt EXCEPT !.month = @ - 1,
                                !.day = DaysInMonth(dt.year, dt.month - 1)], n - 1)
    ELSE IF dt.year > MINYEAR
      THEN MinusDays([dt EXCEPT !.year = @ - 1, !.month = 12, !.day = 31], n - 1)
    ELSE Raised("OverflowError")

\* str() of a natural number
RECURSIVE str(_)
str(n) ==
    LET d == <<CHOOSE c \in Digits : DigitValue(c) = n % 10>> IN
    IF n < 10 THEN d ELSE str(n \div 10) \o d

DateRange(start, end, description) ==
    [start |-> start, end |-> end, description |-> description]

\* DateRange(start, end at 23:59:59 of the day before first, description);
\* first and start are evaluated in the order of the source
RangeUntil(first, start, description) ==
    IF IsRaised(first) THEN first
    ELSE LET end_date == MinusDays(first, 1) IN
         IF IsRaised(end_date) THEN end_date
         ELSE IF IsRaised(start) THEN start
         ELSE DateRange(start,
                        datetime(end_date.year, end_date.month, end_date.day, 23, 59, 59),
                        description)

_quarter_to_range(quarter, year) ==
    LET quarter_starts == [q \in 1..4 |-> <<1, 4, 7, 10>>[q]]
        quarter_ends == [q \in 1..4 |-> <<3, 6, 9, 12>>[q]]
        start_month == quarter_starts[quarter]
        end_month == quarter_ends[quarter] IN
    RangeUntil(IF end_month = 12
                 THEN datetime(year + 1, 1, 1, 0, 0, 0)
                 ELSE datetime(year, end_month + 1, 1, 0, 0, 0),
               datetime(year, start_month, 1, 0, 0, 0),
               <<"Q">> \o str(quarter) \o <<" ">> \o str(year))

\* the pieces of the regular expressions of _parse_date_range
Ws0 == <<El(Spaces, 0, 1000, 0)>>
Ws1 == <<El(Spaces, 1, 1000, 0)>>
W0 == <<El(WordChars, 0, 1000, 0)>>
QuarterDigit(g) == <<El({"1", "2", "3", "4"}, 1, 1, g)>>
Year4(g) == <<El(Digits, 4, 4, g)>>
kvartal == <<"_k", "_v", "_a", "_r", "_t", "_a", "_l">>

\* ([1-4])\s*(?:й|ый|ой|ий)?\s*квартал
NthQuarter ==
    [a \in 1..5 |->
        QuarterDigit(1) \o Ws0
          \o Lit(<<<<"_j">>, <<"_y", "_j">>, <<"_o", "_j">>, <<"_i", "_j">>, <<>>>>[a]) \o Ws0 \o Lit(kvartal)]

\* прошл\w*\s+<word>|предыдущ\w*\s+<word>
Previous(word) ==
    <<Lit(<<"_p", "_r", "_o", "_sh", "_l">>) \o W0 \o Ws1 \o Lit(word),
      Lit(<<"_p", "_r", "_e", "_d", "_y", "_d", "_u", "_sch">>) \o W0 \o Ws1 \o Lit(word)>>

quarter_words ==
    <<<<<<"_p", "_e", "_r", "_v", "_y", "_j">>, 1>>, <<<<"_p", "_e", "_r", "_v", "_o", "_g", "_o">>, 1>>, <<<<"_p", "_e", "_r", "_v", "_o", "_m">>, 1>>,
      <<<<"_v", "_t", "_o", "_r", "_o", "_j">>, 2>>, <<<<"_v", "_t", "_o", "_r", "_o", "_g", "_o">>, 2>>, <<<<"_v", "_t", "_o", "_r", "_o", "_m">>, 2>>,
      <<<<"_t", "_r", "_e", "_t", "_i", "_j">>, 3>>, <<<<"_t", "_r", "_e", "_t", "_q", "_e", "_g", "_o">>, 3>>, <<<<"_t", "_r", "_e", "_t", "_q", "_e", "_m">>, 3>>,
      <<<<"_ch", "_e", "_t", "_v", "_e", "_r", "_t", "_y", "_j">>, 4>>, <<<<"_ch", "_e", "_t", "_v", "_e", "_r", "_t", "_o", "_g", "_o">>, 4>>, <<<<"_ch", "_e", "_t", "_v", "_e", "_r", "_t", "_o", "_m">>, 4>>>>

months_ru ==
    <<<<<<"_ya", "_n", "_v", "_a", "_r">>, 1>>, <<<<"_f", "_e", "_v", "_r", "_a", "_l">>, 2>>, <<<<"_m", "_a", "_r", "_t">>, 3>>, <<<<"_a", "_p", "_r", "_e", "_l">>, 4>>,
      <<<<"_m", "_a">>, 5>>, <<<<"_i", "_yu", "_n">>, 6>>, <<<<"_i", "_yu", "_l">>, 7>>, <<<<"_a", "_v", "_g", "_u", "_s", "_t">>, 8>>,
      <<<<"_s", "_e", "_n", "_t", "_ya", "_b", "_r">>, 9>>, <<<<"_o", "_k", "_t", "_ya", "_b", "_r">>, 10>>, <<<<"_n", "_o", "_ya", "_b", "_r">>, 11>>, <<<<"_d", "_e", "_k", "_a", "_b", "_r">>, 12>>>>

\* the first entry of an ordered dict whose key occurs in the text, or 0
FirstKeyIn(dict, text) ==
    LET hits == {i \in 1..Len(dict) : Substr(dict[i][1], text)} IN
    IF hits = {} THEN 0 ELSE CHOOSE i \in hits : \A j \in hits : i <= j

\* the year of the first run of four digits, or current_year
YearIn(text, current_year) ==
    LET year_match == re_search(<<Year4(1)>>, text) IN
    IF year_match.ok THEN int(group(year_match, 1)) ELSE current_year

\* RAGService._parse_date_range(text); today is datetime.now()
_parse_date_range(text, today) ==
    LET question_lower == lower(text)
        current_year == today.year
        word == FirstKeyIn(quarter_words, question_lower)
        p1 == re_search(<<Lit(<<"q">>) \o QuarterDigit(1) \o Ws0 \o Year4(2)>>,
                        question_lower)
        p2 == re_search(<<Year4(2) \o Ws0 \o Lit(<<"q">>) \o QuarterDigit(1)>>,
                        question_lower)
        p3 == re_search([a \in 1..5 |-> NthQuarter[a] \o Ws0 \o Year4(2)],
                        question_lower)
        p4 == re_search(NthQuarter, question_lower)
        current_quarter == (today.month - 1) \div 3 + 1
        year_match == re_search(<<Lit(<<"_z", "_a">>) \o Ws0 \o Year4(1),
                                  Lit(<<"_v">>) \o Ws0 \o Year4(1),
                                  Lit(<<"_n", "_a">>) \o Ws0 \o Year4(1)>>, question_lower)
        YearRange(year) ==
            LET start == datetime(year, 1, 1, 0, 0, 0) IN
            IF IsRaised(start) THEN start
            ELSE DateRange(start, datetime(year, 12, 31, 23, 59, 59),
                           str(year) \o <<" ", "_g", "_o", "_d">>)
        month == FirstKeyIn(months_ru, question_lower)
        last_n_match ==
            re_search([u \in 1..3 |->
                          Lit(<<"_p", "_o", "_s", "_l", "_e", "_d", "_n", "_i">>) \o <<El({<<"_e">>[1], <<"_h">>[1]}, 1, 1, 0)>> \o Ws1
                            \o <<El(Digits, 1, 1000, 1)>> \o Ws0
                            \o Lit(<<<<"_m", "_e", "_s", "_ya", "_c">>, <<"_n", "_e", "_d", "_e", "_l">>, <<"_d", "_n">>>>[u])],
                      question_lower)
    IN
    IF word # 0 /\ Substr(kvartal, question_lower)
      THEN _quarter_to_range(quarter_words[word][2], YearIn(question_lower, current_year))
    ELSE IF p1.ok THEN _quarter_to_range(int(group(p1, 1)), int(group(p1, 2)))
    ELSE IF p2.ok THEN _quarter_to_range(int(group(p2, 1)), int(group(p2, 2)))
    ELSE IF p3.ok THEN _quarter_to_range(int(group(p3, 1)), int(group(p3, 2)))
    ELSE IF p4.ok THEN _quarter_to_range(int(group(p4, 1)), current_year)
    ELSE IF re_search(Previous(kvartal), question_lower).ok
      THEN IF current_quarter = 1
             THEN _quarter_to_range(4, current_year - 1)
             ELSE _quarter_to_range(current_quarter - 1, current_year)
    ELSE IF year_match.ok THEN YearRange(int(group(year_match, 1)))
    ELSE IF re_search(Previous(<<"_g", "_o", "_d">>), question_lower).ok
      THEN YearRange(current_year - 1)
    ELSE IF month # 0
      THEN LET month_num == months_ru[month][2]
               year == YearIn(question_lower, current_year) IN
           RangeUntil(IF month_num = 12
                        THEN datetime(year + 1, 1, 1, 0, 0, 0)
                        ELSE datetime(year, month_num + 1, 1, 0, 0, 0),
                      datetime(year, month_num, 1, 0, 0, 0),
                      months_ru[month][1] \o <<"*", " ">> \o str(year))
    ELSE IF re_search(Previous(<<"_m", "_e", "_s", "_ya", "_c">>), question_lower).ok
      THEN RangeUntil(datetime(today.year, today.month, 1, 0, 0, 0),
                      datetime(MinusDays(datetime(today.year, today.month, 1, 0, 0, 0), 1).year,
                               MinusDays(datetime(today.year, today.month, 1, 0, 0, 0), 1).month,
                               1, 0, 0, 0),
                      <<"_p", "_r", "_o", "_sh", "_l", "_y", "_j", " ", "_m", "_e", "_s", "_ya", "_c">>)
    ELSE IF last_n_match.ok
      THEN LET n == int(group(last_n_match, 1))
               days == CASE last_n_match.alt = 1 -> n * 30
                         [] last_n_match.alt = 2 -> n * 7
                         [] OTHER -> n
               start == MinusDays(today, days) IN
           IF IsRaised(start) THEN start
           ELSE DateRange(start, today,
                          <<"_p", "_o", "_s", "_l", "_e", "_d", "_n", "_i", "_e", " ">> \o str(n) \o <<" ">>
                            \o <<<<"_m", "_e", "_s", "_ya", "_c">>, <<"_n", "_e", "_d", "_e", "_l">>, <<"_d", "_n">>>>[last_n_match.alt] \o <<"*">>)
    ELSE NoRange

\* a year written with four digits
Digits4(y) ==
    LET d(n) == CHOOSE c \in Digits : DigitValue(c) = n IN
    <<d(y \div 1000), d((y \div 100) % 10), d((y \div 10) % 10), d(y % 10)>>

\* the ways a question writes quarter q of year y
QuarterToken(q, y, form) ==
    CASE form = 1 -> <<"Q">> \o str(q) \o <<" ">> \o Digits4(y)
      [] form = 2 -> <<"q">> \o str(q) \o <<" ">> \o Digits4(y)
      [] OTHER -> <<"Q">> \o str(q) \o Digits4(y)

TokenForms == 1..3

\* years datetime represents, the first and the last among them
TokenYears == {1, 2024, 2025, 9998, 9999}

\* what precedes and follows the token; the last ones carry an explicit year
Prefixes == {<<>>, <<"_CH", "_t", "_o", " ", "_o", "_b", "_s", "_u", "_d", "_i", "_l", "_i", " ", "_v", " ">>, <<"_z", "_a", " ", "2", "0", "2", "4", " ", "_g", "_o", "_d", " ">>}
Suffixes == {<<>>, <<"?">>, <<" ", "_v", " ", "2", "0", "2", "3">>}

QuarterQuestions ==
    {pre \o QuarterToken(q, y, form) \o suf :
        pre \in Prefixes, suf \in Suffixes,
        q \in 1..4, y \in TokenYears, form \in TokenForms}

Nows ==
    {[year |-> 2026, month |-> 11, day |-> 5, hour |-> 12, minute |-> 0, second |-> 0],
     [year |-> 2025, month |-> 1, day |-> 31, hour |-> 23, minute |-> 59, second |-> 59]}

DateInit ==
    /\ WatcherIdle
    /\ WebhookIdle
    /\ IndexIdle
    /\ SearchIdle
    /\ SettingsIdle
    /\ HypothesesIdle
    /\ AskIdle
    /\ MainIdle
    /\ question \in QuarterQuestions
    /\ now \in Nows
    /\ parsed = NotParsed

\* a call of _parse_date_range(question)
ParseDateRange ==
    /\ UNCHANGED <<watcherVars, webhookVars, indexVars, searchVars, settingsVars, hypothesisVars, askVars, mainVars>>
    /\ ~parsed.called
    /\ parsed' = [called |-> TRUE, value |-> _parse_date_range(question, now)]
    /\ UNCHANGED <<question, now>>

DateNext == ParseDateRange

SpecDate == DateInit /\ [][DateNext]_vars

\* the range the claim gives for quarter q of year y
QuarterOf(q, y) ==
    [start |-> [year |-> y, month |-> 3 * q - 2, day |-> 1,
                hour |-> 0, minute |-> 0, second |-> 0],
     end |-> [year |-> y, month |-> 3 * q,
              day |-> IF q \in {2, 3} THEN 30 ELSE 31,
              hour |-> 23, minute |-> 59, second |-> 59],
     description |-> <<"Q", <<"1", "2", "3", "4">>[q], " ">> \o str(y)]

\* the question carries the token of quarter q of year y
Carries(q, y) ==
    \E pre \in Prefixes, suf \in Suffixes, form \in TokenForms :
        question = pre \o QuarterToken(q, y, form) \o suf

\* C16: for every quarter 1..4 and every year a question carrying
\* the quarter token parses to the first day of the quarter at 00:00:00, the
\* last day of the quarter at 23:59:59 and the description 'Q<q> <y>', also
\* when the question names another year.
C16_EveryYear ==
    parsed.called =>
        \A q \in 1..4, y \in TokenYears :
            Carries(q, y) => parsed.value = QuarterOf(q, y)

----------------------------------------------------------------------------
(***************************************************************************)
(* Dashboard settings: get_setting / set_setting over the settings table   *)
(***************************************************************************)
\* DEFAULT_SETTINGS.get(key)
DEFAULT_SETTINGS(key) == IF key = "min_similarity" THEN "0.15" ELSE None

SettingValues == {"", "0.15", "0.3"}

Descriptions == {None, "", "threshold"}

\* the value get_setting(key) returns
get_setting(key) ==
    LET row == IF settings[key] = NoRow THEN None ELSE settings[key].value IN
    IF row # None /\ row # "" THEN row ELSE DEFAULT_SETTINGS(key)

GetSetting(key) ==
    /\ UNCHANGED <<watcherVars, webhookVars, indexVars, searchVars, dateVars, hypothesisVars, askVars, mainVars>>
    /\ setting_call' = [op |-> "get", key |-> key, value |-> None,
                        result |-> get_setting(key)]
    /\ UNCHANGED settings

\* set_setting(key, value, description): update the row or insert it, commit
SetSetting(key, value, description) ==
    /\ UNCHANGED <<watcherVars, webhookVars, indexVars, searchVars, dateVars, hypothesisVars, askVars, mainVars>>
    /\ settings' =
          [settings EXCEPT ![key] =
              IF settings[key] # NoRow
                THEN [value |-> value,
                      description |-> IF description # None /\ description # ""
                                        THEN description
                                        ELSE settings[key].description]
                ELSE [value |-> value, description |-> description]]
    /\ setting_call' = [op |-> "set", key |-> key, value |-> value, result |-> None]

SettingsNext ==
    \/ \E key \in SettingKeys : GetSetting(key)
    \/ \E key \in SettingKeys, value \in SettingValues, description \in Descriptions :
          SetSetting(key, value, description)

SpecSettings == Init /\ [][SettingsNext]_vars

\* C17: get_setting(key) called right after set_setting(key, value) returns
\* value, for every key (with or without a default, stored before or not) and
\* every value, the empty string included.
C17_ReadYourWrite ==
    [][\A key \in SettingKeys :
          (setting_call.op = "set" /\ setting_call.key = key /\ GetSetting(key))
            => setting_call'.result = setting_call.value]_vars

----------------------------------------------------------------------------
(***************************************************************************)
(* HypothesisRepository: create, update_status, get_quarterly_stats        *)
(***************************************************************************)
HypothesisQuarters == {"Q1 2026", "Q2 2026"}

\* the statuses of the model comment and two other strings a client may send
Statuses == {"active", "testing", "validated", "failed", "paused"}
StatusInputs == Statuses \cup {"total", "quarter"}

\* HypothesisRepository.create: the row gets the default status
CreateHypothesis(quarter) ==
    /\ UNCHANGED <<watcherVars, webhookVars, indexVars, searchVars, dateVars, settingsVars, askVars, mainVars>>
    /\ Len(hypotheses) < MaxHypotheses
    /\ hypotheses' = Append(hypotheses,
                            [quarter |-> quarter, status |-> "active", tested |-> FALSE])
    /\ stats' = NoStats

\* HypothesisRepository.update_status
UpdateStatus(hypothesis_id, status) ==
    /\ UNCHANGED <<watcherVars, webhookVars, indexVars, searchVars, dateVars, settingsVars, askVars, mainVars>>
    /\ hypothesis_id \in 1..Len(hypotheses)
    /\ hypotheses' = [hypotheses EXCEPT ![hypothesis_id] =
                         [@ EXCEPT !.status = status,
                                   !.tested = @ \/ status \in {"validated", "failed"}]]
    /\ stats' = NoStats

\* round(n / d * 100, 1) in tenths of a percent, halves to the even digit
RoundedRate(n, d) ==
    LET q == (n * 1000) \div d
        r == (n * 1000) % d IN
    IF 2 * r > d \/ (2 * r = d /\ q % 2 = 1) THEN q + 1 ELSE q

\* the loop `for h in hypotheses: if h.status in stats: stats[h.status] += 1`
\* over the first n rows of list_by_quarter
RECURSIVE Counted(_, _, _)
Counted(init, rows, n) ==
    IF n = 0 THEN init
    ELSE LET before == Counted(init, rows, n - 1)
             key == rows[n].status IN
         IF IsRaised(before) THEN before
         ELSE IF key \notin DOMAIN before THEN before
         ELSE IF key = "quarter" THEN Raised("TypeError")
         ELSE [before EXCEPT ![key] = @ + 1]

get_quarterly_stats(quarter) ==
    LET rows == SelectSeq(hypotheses, LAMBDA h : h.quarter = quarter)
        counts == Counted([quarter |-> quarter, total |-> Len(rows), active |-> 0,
                           testing |-> 0, validated |-> 0, failed |-> 0, paused |-> 0],
                          rows, Len(rows)) IN
    IF IsRaised(counts) THEN counts
    ELSE [quarter |-> counts.quarter, total |-> counts.total, active |-> counts.active,
          testing |-> counts.testing, validated |-> counts.validated,
          failed |-> counts.failed, paused |-> counts.paused,
          success_rate |-> IF counts.validated + counts.failed > 0
                             THEN RoundedRate(counts.validated,
                                              counts.validated + counts.failed)
                             ELSE 0]

GetQuarterlyStats(quarter) ==
    /\ UNCHANGED <<watcherVars, webhookVars, indexVars, searchVars, dateVars, settingsVars, askVars, mainVars>>
    /\ stats' = get_quarterly_stats(quarter)
    /\ UNCHANGED hypotheses

HypothesesNext ==
    \/ \E quarter \in HypothesisQuarters : CreateHypothesis(quarter)
    \/ \E id \in 1..MaxHypotheses, status \in StatusInputs : UpdateStatus(id, status)
    \/ \E quarter \in HypothesisQuarters : GetQuarterlyStats(quarter)

SpecHypotheses == Init /\ [][HypothesesNext]_vars

\* the hypotheses of quarter q that are in status st
InStatus(q, st) ==
    {i \in 1..Len(hypotheses) : hypotheses[i].quarter = q /\ hypotheses[i].status = st}

\* C19: after any sequence of create and update_status, get_quarterly_stats(q)
\* reports total = number of hypotheses of quarter q, each of active, testing,
\* validated, failed, paused = number of those in that status, and success_rate
\* = validated * 100 / (validated + failed), or 0 when validated + failed = 0
\* (success_rate is held in tenths of a percent).
C19_QuarterlyStats ==
    \A q \in HypothesisQuarters :
        stats # NoStats /\ (IsRaised(stats) \/ stats.quarter = q) =>
            /\ ~IsRaised(stats)
            /\ stats.total =
                 Cardinality({i \in 1..Len(hypotheses) : hypotheses[i].quarter = q})
            /\ \A st \in Statuses : stats[st] = Cardinality(InStatus(q, st))
            /\ LET v == Cardinality(InStatus(q, "validated"))
                   f == Cardinality(InStatus(q, "failed")) IN
               IF v + f = 0 THEN stats.success_rate = 0
               ELSE stats.success_rate * (v + f) = v * 1000

----------------------------------------------------------------------------
(***************************************************************************)
(* Retry of a failed embedding by the reconciler                           *)
(***************************************************************************)
\* the message ids a pass that starts now walks in room c: iter_messages
\* is opened with min_id = the cursor read by catchup_all_chats
Walked(ch) == {i \in 1..Len(history[ch.id]) : i > OrZero(ch.min_id)}

\* C20: whenever embedding failed for a message that is still not stored,
\* the next reconciler pass over its room walks that message again, whatever
\* other messages of the room were committed in the meantime.
C20_RetryAfterEmbeddingFailure ==
    [][CatchupAllChats =>
         \A ch \in catchup'.chats : \A k \in failed :
             (k[1] = ch.id /\ k \notin CommittedKeys)
                 => k[2] \in Walked(ch)]_vars

----------------------------------------------------------------------------
(***************************************************************************)
(* RAGService.ask and POST /api/rag/ask                                    *)
(***************************************************************************)
\* `if x` for an optional str
Truthy(s) == s # NoStr /\ s # <<>>

\* title.split(" - ")[0]
FirstPart(title) ==
    LET sep == <<" ", "-", " ">>
        at == {i \in 1..(Len(title) - 2) : SubSeq(title, i, i + 2) = sep} IN
    IF at = {} THEN title
    ELSE SubSeq(title, 1, (CHOOSE i \in at : \A j \in at : i <= j) - 1)

\* str.strip()
strip(s) ==
    LET inked == {i \in 1..Len(s) : s[i] \notin Spaces} IN
    IF inked = {} THEN <<>>
    ELSE SubSeq(s, CHOOSE i \in inked : \A j \in inked : i <= j,
                   CHOOSE i \in inked : \A j \in inked : i >= j)

\* the words of str.split()
split(s) ==
    {SubSeq(s, p[1], p[2]) :
        p \in {q \in (1..Len(s)) \X (1..Len(s)) :
                  /\ q[1] <= q[2]
                  /\ \A k \in q[1]..q[2] : s[k] \notin Spaces
                  /\ (q[1] = 1 \/ s[q[1] - 1] \in Spaces)
                  /\ (q[2] = Len(s) \/ s[q[2] + 1] \in Spaces)}}

\* the chats of telegram_chats the assistant reads
ChatRow(c) ==
    IF c = "X"
      THEN [title |-> <<"A", "c", "m", "e", " ", "c", "h", "a", "t">>, client_name |-> Acme]
    ELSE IF c = "Z"
      THEN [title |-> <<"P", "a", "r", "t", "n", "e", "r", "s">>, client_name |-> AcmePartners]
      ELSE [title |-> <<"T", "e", "a", "m">>, client_name |-> NoStr]

TgJoined(id, c, sim) ==
    [id |-> id, chat_id |-> c, chat_title |-> ChatRow(c).title,
     client_name |-> ChatRow(c).client_name,
     message_date |-> [year |-> 2025, month |-> 2, day |-> 11,
                       hour |-> 9, minute |-> 30, second |-> 0],
     similarity |-> sim]

\* the orders in which a set may be iterated
Orderings(S) ==
    {f \in [1..Cardinality(S) -> S] : \A i, j \in DOMAIN f : i # j => f[i] # f[j]}

NoMatchYet == [best_match |-> NoStr, best_match_len |-> 0]

\* one turn of `for client_name in client_names`, lines 91-104 and 417-429
MatchName(best, client_name, question_lower) ==
    LET name_lower == lower(client_name) IN
    IF Substr(name_lower, question_lower)
      THEN IF Len(name_lower) > best.best_match_len
             THEN [best_match |-> client_name, best_match_len |-> Len(name_lower)]
             ELSE best
      ELSE LET words == {w \in split(name_lower) :
                            /\ Len(w) > 3
                            /\ Substr(w, question_lower)
                            /\ Len(w) > best.best_match_len} IN
           IF words = {} THEN best
           ELSE [best_match |-> client_name,
                 best_match_len |-> CHOOSE n \in {Len(w) : w \in words} :
                                       \A w \in words : Len(w) <= n]

RECURSIVE MatchAll(_, _, _, _)
MatchAll(best, names, i, question_lower) ==
    IF i > Len(names) THEN best.best_match
    ELSE MatchAll(MatchName(best, names[i], question_lower), names, i + 1,
                  question_lower)

\* the values _find_client_filter may return: client_names is a set, iterated
\* in an order the build chooses
_find_client_filter(text) ==
    LET titles == {MeetingRow(m).title : m \in catalog}
        client_names == {n \in {strip(FirstPart(title)) : title \in titles} : Len(n) > 2}
    IN {MatchAll(NoMatchYet, names, 1, lower(text)) : names \in Orderings(client_names)}

\* the values _find_telegram_client_filter may return: the rows of SELECT
\* DISTINCT come in an order the executor chooses
_find_telegram_client_filter(text) ==
    LET client_names == {ChatRow(c).client_name : c \in rooms} \ {NoStr}
    IN {MatchAll(NoMatchYet, names, 1, lower(text)) : names \in Orderings(client_names)}

\* the WHERE clause of search_telegram_diversified
TgWhere(row, client_name, date_range) ==
    /\ Truthy(client_name) => (row.client_name # NoStr /\ row.client_name = client_name)
    /\ (date_range # NoRange)
          => /\ row.message_date # NoDate
             /\ DtLe(date_range.start, row.message_date)
             /\ DtLe(row.message_date, date_range.end)

\* the result lists search_telegram_diversified may return
search_telegram_diversified(max_chunks_per_chat, max_total_chunks, min_similarity, client_name, date_range) ==
    LET ranked_chunks == {row \in messages : TgWhere(row, client_name, date_range)}
        rank(a, o) == RowNumber(a, {b \in ranked_chunks : b.chat_id = a.chat_id}, o) IN
    {OrderLimit({a \in ranked_chunks :
                    /\ rank(a, o1) <= max_chunks_per_chat
                    /\ a.similarity > min_similarity},
                o2, max_total_chunks) :
       o1 \in TieOrders(ranked_chunks), o2 \in TieOrders(ranked_chunks)}

\* the keyword arguments of one call of search_similar_diversified
MeetingAttempt(per, total, min, client_id, title_filter, date_range) ==
    [max_chunks_per_meeting |-> per, max_total_chunks |-> total,
     min_similarity |-> min, client_id |-> client_id,
     title_filter |-> title_filter, date_range |-> date_range]

\* the keyword arguments of one call of search_telegram_diversified
TelegramAttempt(per, total, min, client_name, date_range) ==
    [max_chunks_per_chat |-> per, max_total_chunks |-> total,
     min_similarity |-> min, client_name |-> client_name, date_range |-> date_range]

\* before the first search of a cascade: no sources, no arguments logged, no
\* result counts logged
NoSearch == [sources |-> <<>>, attempts |-> <<>>, found |-> <<>>]

\* one more search: its result replaces the sources; its arguments and the
\* number of results it returned are logged
MeetingSearch(done, a) ==
    {[sources |-> r, attempts |-> Append(done.attempts, a),
      found |-> Append(done.found, Len(r))] :
        r \in search_similar_diversified(a.max_chunks_per_meeting, a.max_total_chunks,
                  a.min_similarity, a.client_id, a.title_filter, a.date_range)}

TelegramSearch(done, a) ==
    {[sources |-> r, attempts |-> Append(done.attempts, a),
      found |-> Append(done.found, Len(r))] :
        r \in search_telegram_diversified(a.max_chunks_per_chat, a.max_total_chunks,
                  a.min_similarity, a.client_name, a.date_range)}

\* line 611: `if title_filter or client_id or date_range`
Filtered_always(title_filter, client_id, date_range) == TRUE

Filtered(title_filter, client_id, date_range) ==
    Truthy(title_filter) \/ client_id # NoClient \/ date_range # NoRange

\* the meeting search when the last fallback runs whatever the earlier
\* searches found
MeetingCascade_eager(client_id, title_filter, date_range) ==
    IF Filtered(title_filter, client_id, date_range)
      THEN UNION {MeetingSearch(s, MeetingAttempt(1, 15, 20, client_id, NoStr, NoRange)) :
                     s \in MeetingSearch(NoSearch,
                              MeetingAttempt(2, 20, 15, client_id, title_filter, date_range))}
      ELSE MeetingSearch(NoSearch, MeetingAttempt(1, 15, 20, NoClient, NoStr, NoRange))

\* lines 610-648: the meeting search with its fallbacks
MeetingCascade(client_id, title_filter, date_range) ==
    IF Filtered(title_filter, client_id, date_range)
      THEN LET first == MeetingSearch(NoSearch,
                   MeetingAttempt(2, 20, 15, client_id, title_filter, date_range))
               second == UNION {
                   IF Len(s.sources) < 3 /\ date_range # NoRange
                     THEN MeetingSearch(s,
                              MeetingAttempt(2, 20, 15, client_id, title_filter, NoRange))
                     ELSE {s} : s \in first}
           IN UNION {
                   IF Len(s.sources) < 3 /\ Truthy(title_filter)
                     THEN MeetingSearch(s,
                              MeetingAttempt(1, 15, 20, client_id, NoStr, NoRange))
                     ELSE {s} : s \in second}
      ELSE MeetingSearch(NoSearch, MeetingAttempt(1, 15, 20, NoClient, NoStr, NoRange))

\* the chat search without its fallback
TelegramCascade_once(search_telegram, telegram_client_filter, date_range) ==
    IF ~search_telegram THEN {NoSearch}
    ELSE IF Truthy(telegram_client_filter) \/ date_range # NoRange
      THEN TelegramSearch(NoSearch,
               TelegramAttempt(3, 15, 15, telegram_client_filter, date_range))
      ELSE TelegramSearch(NoSearch, TelegramAttempt(2, 10, 20, NoStr, NoRange))

\* lines 650-678: the chat search with its fallback
TelegramCascade(search_telegram, telegram_client_filter, date_range) ==
    IF ~search_telegram THEN {NoSearch}
    ELSE IF Truthy(telegram_client_filter) \/ date_range # NoRange
      THEN LET first == TelegramSearch(NoSearch,
                   TelegramAttempt(3, 15, 15, telegram_client_filter, date_range))
           IN UNION {
                   IF Len(s.sources) < 2 /\ date_range # NoRange
                     THEN TelegramSearch(s,
                              TelegramAttempt(3, 15, 15, telegram_client_filter, NoRange))
                     ELSE {s} : s \in first}
      ELSE TelegramSearch(NoSearch, TelegramAttempt(2, 10, 20, NoStr, NoRange))

\* a piece of the context string: a run of newlines, a rule, a banner, the
\* header of a group or the text of a chunk
Piece(t, i, id, title, date) == [t |-> t, i |-> i, id |-> id, title |-> title, date |-> date]

Mark(t) == Piece(t, 0, "", <<>>, NoDate)

\* "\n", "\n\n", "---", "=" * 50 and the two banners
NL == Mark("\n")
NL2 == Mark("\n\n")
Dashes == Mark("---")
Rule == Mark("=*50")
MeetingBanner == Mark("=== meetings ===")
TelegramBanner == Mark("=== telegram ===")

\* separator.join(parts) for a list of strings
RECURSIVE join(_, _)
join(separator, parts) ==
    IF parts = <<>> THEN <<>>
    ELSE IF Len(parts) = 1 THEN parts[1]
    ELSE parts[1] \o separator \o join(separator, Tail(parts))

\* the keys of an OrderedDict filled in the order of `keys`
RECURSIVE FirstSeen(_)
FirstSeen(keys) ==
    IF keys = <<>> THEN <<>>
    ELSE LET front == FirstSeen(SubSeq(keys, 1, Len(keys) - 1))
             k == keys[Len(keys)] IN
         IF \E j \in DOMAIN front : front[j] = k THEN front ELSE Append(front, k)

\* meeting_date[:10]
Date10(d) == IF d = NoDate THEN d ELSE [d EXCEPT !.hour = 0, !.minute = 0, !.second = 0]

\* lines 338-357
_format_context(sources) ==
    LET meetings_chunks == FirstSeen([k \in DOMAIN sources |-> sources[k].meeting_id])
        chunks(i) == SelectSeq(sources, LAMBDA c : c.meeting_id = meetings_chunks[i])
        part(i) ==
            <<Piece("meeting", i, meetings_chunks[i], chunks(i)[1].meeting_title,
                    Date10(chunks(i)[1].meeting_date)), NL>>
            \o join(<<NL2>>, [k \in DOMAIN chunks(i) |->
                                 <<Piece("chunk_text", chunks(i)[k].id, "", <<>>, NoDate)>>])
    IN join(<<NL2, Dashes, NL2>>, [i \in DOMAIN meetings_chunks |-> part(i)])

\* lines 359-383: the groups are keyed by chat_title
_format_telegram_context(sources) ==
    LET chats_chunks == FirstSeen([k \in DOMAIN sources |-> sources[k].chat_title])
        chunks(i) == SelectSeq(sources, LAMBDA c : c.chat_title = chats_chunks[i])
        part(i) ==
            <<Piece("chat", i, "", chats_chunks[i], NoDate), NL>>
            \o join(<<NL2>>, [k \in DOMAIN chunks(i) |->
                                 <<Piece("message", chunks(i)[k].id, "", <<>>,
                                         Date10(chunks(i)[k].message_date))>>])
    IN join(<<NL2, Dashes, NL2>>, [i \in DOMAIN chats_chunks |-> part(i)])

\* lines 385-401; the returned expression parses as
\* ("\n\n" + "=" * 50 + "\n\n".join(parts)) if parts else ""
_format_combined_context(meeting_sources, telegram_sources) ==
    LET parts ==
          (IF meeting_sources # <<>>
             THEN <<<<MeetingBanner, NL2>> \o _format_context(meeting_sources)>>
             ELSE <<>>)
          \o (IF telegram_sources # <<>>
                THEN <<<<TelegramBanner, NL2>> \o _format_telegram_context(telegram_sources)>>
                ELSE <<>>)
    IN IF parts # <<>> THEN <<NL2>> \o <<Rule>> \o join(<<NL2>>, parts) ELSE <<>>

\* the canned answer of line 682
Apology == "apology"

\* response.content of the generative model
LlmContent == "content"

\* line 681: `if not meeting_sources and not telegram_sources`
NothingFound_never(meeting_sources, telegram_sources) == FALSE

NothingFound(meeting_sources, telegram_sources) ==
    meeting_sources = <<>> /\ telegram_sources = <<>>

\* the external calls of ask that may raise: the SELECT of the titles, the
\* meeting search, the chat search, the generative model
Faults == {"none", "titles", "meetings", "telegram", "llm"}

\* ask raised `name` after the steps recorded in o
AskRaised(o, name) == [o EXCEPT !.raised = name]

\* lines 595-739 with date_range the value of _parse_date_range(question), or
\* the exception it raises
AskSteps(date_range, text, client_id, search_telegram, fault) ==
    LET o0 == [NotAsked EXCEPT !.called = TRUE, !.client_id = client_id,
                               !.search_telegram = search_telegram]
    IN
    IF fault = "titles" THEN {AskRaised(o0, "Exception")}
    ELSE UNION {
      LET o1 == [o0 EXCEPT !.title_filter = title_filter,
                           !.telegram_client_filter = telegram_client_filter] IN
      IF IsRaised(date_range) THEN {AskRaised(o1, date_range.raised)}
      ELSE LET o2 == [o1 EXCEPT !.date_range = date_range] IN
      IF fault = "meetings" THEN {AskRaised(o2, "Exception")}
      ELSE UNION {
        LET o3 == [o2 EXCEPT !.attempts = m.attempts, !.found = m.found,
                             !.meeting_sources = m.sources] IN
        IF fault = "telegram" /\ search_telegram THEN {AskRaised(o3, "Exception")}
        ELSE {
          LET o4 == [o3 EXCEPT !.telegram_attempts = t.attempts,
                               !.telegram_found = t.found,
                               !.telegram_sources = t.sources,
                               !.retrieved = TRUE] IN
          IF NothingFound(m.sources, t.sources)
            THEN [o4 EXCEPT !.value = <<Apology, <<>>, <<>>>>]
          ELSE IF fault = "llm"
            THEN AskRaised([o4 EXCEPT !.llm_calls = 1,
                                      !.context = _format_combined_context(m.sources, t.sources)],
                           "Exception")
          ELSE [o4 EXCEPT !.llm_calls = 1,
                          !.context = _format_combined_context(m.sources, t.sources),
                          !.value = <<LlmContent, m.sources, t.sources>>]
          : t \in TelegramCascade(search_telegram, telegram_client_filter, date_range)}
        : m \in MeetingCascade(client_id, title_filter, date_range)}
      : title_filter \in _find_client_filter(text),
        telegram_client_filter \in _find_telegram_client_filter(text)}

\* the outcomes ask may have; fault names the external call that raises, if
\* the call is made
ask(text, today, client_id, search_telegram, fault) ==
    AskSteps(_parse_date_range(text, today), text, client_id, search_telegram, fault)

\* `a, b = value` and its kin: unpacking into n names
Unpack(value, n) ==
    IF Len(value) = n THEN [ok |-> TRUE, names |-> value]
    ELSE [ok |-> FALSE, names |-> <<>>]

\* raise HTTPException(status_code=500, ...)
HTTPException(status_code) ==
    [called |-> TRUE, status_code |-> status_code, answer |-> "", sources |-> <<>>]

SourceInfo(s) ==
    [meeting_title |-> s.meeting_title, meeting_date |-> s.meeting_date,
     similarity |-> s.similarity]

\* the response of ask_question when rag.ask had outcome o
ask_question(o) ==
    IF o.raised # "" THEN HTTPException(500)
    ELSE LET unpacked == Unpack(o.value, 2) IN
         IF ~unpacked.ok THEN HTTPException(500)
         ELSE [called |-> TRUE, status_code |-> 200, answer |-> unpacked.names[1],
               sources |-> [i \in 1..Len(unpacked.names[2]) |->
                               SourceInfo(unpacked.names[2][i])]]

Questions ==
    {<<"_CH", "_t", "_o", " ", "_o", "_b", "_s", "_u", "_zh", "_d", "_a", "_l", "_i", " ", "_s", " ", "A", "c", "m", "e", "?">>,
     <<"_CH", "_t", "_o", " ", "_o", "_b", "_s", "_u", "_zh", "_d", "_a", "_l", "_i", " ", "_s", " ", "A", "c", "m", "e", " ", "_v", " ", "Q", "1", " ", "2", "0", "2", "5", "?">>,
     <<"_CH", "_t", "_o", " ", "_o", "_b", "_s", "_u", "_zh", "_d", "_a", "_l", "_i", "?">>,
     <<"B", "e", "t", "a", " ", "_z", "_a", " ", "2", "0", "2", "4", " ", "_g", "_o", "_d">>,
     <<"A", "c", "m", "e", " ", "Q", "4", " ", "9", "9", "9", "9">>,
     <<"A", "c", "m", "e", " ", "_i", " ", "P", "a", "r", "t", "n", "e", "r", "s", "?">>}

\* the meetings table and the embedded chunks of its meetings
Libraries ==
    {[catalog |-> {}, corpus |-> {}],
     [catalog |-> {"A"}, corpus |-> {}],
     [catalog |-> {"B"}, corpus |-> {Joined(1, "B", 30), Joined(2, "B", 25)}],
     [catalog |-> {"A", "B"}, corpus |-> ExampleCorpus],
     [catalog |-> {"A", "B"}, corpus |-> {Joined(1, "A", 18), Joined(2, "B", 90)}],
     [catalog |-> {"A", "B"}, corpus |-> {Joined(1, "A", 10), Joined(2, "B", 10)}],
     [catalog |-> {"A"}, corpus |-> {Joined(1, "A", 18), Joined(2, "A", 17)}],
     [catalog |-> {"A", "C"},
      corpus |-> {Joined(1, "A", 50), Joined(2, "A", 40), Joined(3, "C", 30),
                  Joined(4, "C", 25)}],
     [catalog |-> {"A", "D"},
      corpus |-> {Joined(1, "A", 50), Joined(2, "A", 40), Joined(3, "D", 30),
                  Joined(4, "D", 25)}]}

\* the chats and their embedded messages
Chatrooms ==
    {[rooms |-> {}, messages |-> {}],
     [rooms |-> {"X"}, messages |-> {}],
     [rooms |-> {"Y"}, messages |-> {TgJoined(1, "Y", 18)}],
     [rooms |-> {"X", "Y"},
      messages |-> {TgJoined(1, "X", 50), TgJoined(2, "X", 40), TgJoined(3, "X", 30),
                    TgJoined(4, "X", 25), TgJoined(5, "Y", 22)}],
     [rooms |-> {"X", "Z"}, messages |-> {TgJoined(1, "X", 50), TgJoined(2, "Z", 40)}]}

AskInit ==
    /\ WatcherIdle
    /\ WebhookIdle
    /\ IndexIdle
    /\ SettingsIdle
    /\ HypothesesIdle
    /\ \E lib \in Libraries : catalog = lib.catalog /\ corpus = lib.corpus
    /\ \E ch \in Chatrooms : rooms = ch.rooms /\ messages = ch.messages
    /\ request = NoRequest
    /\ results = NotCalled
    /\ nearest = NotCalled
    /\ question \in Questions
    /\ now = [year |-> 2026, month |-> 11, day |-> 5,
              hour |-> 12, minute |-> 0, second |-> 0]
    /\ parsed = NotParsed
    /\ answer = NotAsked
    /\ response = NoResponse
    /\ MainIdle

\* a direct call of RAGService.ask (the bot and the dashboard)
Ask(client_id, search_telegram, fault) ==
    /\ UNCHANGED <<watcherVars, webhookVars, indexVars, searchVars, dateVars, settingsVars, hypothesisVars, mainVars>>
    /\ ~answer.called
    /\ answer' \in ask(question, now, client_id, search_telegram, fault)
    /\ UNCHANGED <<catalog, rooms, messages, response>>

\* POST /api/rag/ask: rag.ask with search_telegram left at its default
AskQuestion(client_id, fault) ==
    /\ UNCHANGED <<watcherVars, webhookVars, indexVars, searchVars, dateVars, settingsVars, hypothesisVars, mainVars>>
    /\ ~answer.called
    /\ \E o \in ask(question, now, client_id, TRUE, fault) :
          /\ answer' = o
          /\ response' = ask_question(o)
    /\ UNCHANGED <<catalog, rooms, messages>>

AskNext ==
    \/ \E client_id \in {NoClient, "c1"}, search_telegram \in BOOLEAN, fault \in Faults :
           Ask(client_id, search_telegram, fault)
    \/ \E client_id \in {NoClient, "c1"}, fault \in Faults :
           AskQuestion(client_id, fault)

SpecAsk == AskInit /\ [][AskNext]_vars

\* C14: when the meeting retrieval and the chat retrieval both end with no
\* results, ask returns the canned apology with two empty source lists, raises
\* nothing and does not invoke the generative model; the generative model is
\* invoked only when at least one source list is non-empty.
C14_ApologyWithoutModel ==
    answer.called =>
      /\ (/\ answer.retrieved
          /\ answer.meeting_sources = <<>>
          /\ answer.telegram_sources = <<>>)
            => /\ answer.raised = ""
               /\ answer.value = <<Apology, <<>>, <<>>>>
               /\ answer.llm_calls = 0
      /\ answer.llm_calls > 0
            => /\ answer.retrieved
               /\ (answer.meeting_sources # <<>> \/ answer.telegram_sources # <<>>)

\* chunks and messages are stored, every search of both cascades comes back
\* empty, and the apology is returned
C14_Witness ==
    /\ answer.called
    /\ corpus # {}
    /\ messages # {}
    /\ answer.retrieved
    /\ Len(answer.attempts) > 1
    /\ answer.meeting_sources = <<>>
    /\ answer.telegram_sources = <<>>
    /\ answer.value = <<Apology, <<>>, <<>>>>

\* the question names Acme and no stored meeting title contains that name
AcmeUnknown ==
    /\ Substr(lower(Acme), lower(question))
    /\ \A m \in catalog : ~Substr(lower(Acme), lower(MeetingRow(m).title))

\* C15 as claimed: when the question names a client ("Acme") and no stored
\* meeting title contains that name, ask infers the title filter "Acme", makes
\* a first attempt with it, then drops the title filter and returns the
\* results of the relaxed attempt.
C15_InfersAndRelaxes ==
    (answer.called /\ answer.retrieved /\ AcmeUnknown) =>
      /\ answer.title_filter = Acme
      /\ Len(answer.attempts) >= 2
      /\ answer.attempts[1].title_filter = Acme
      /\ answer.attempts[Len(answer.attempts)].title_filter = NoStr

\* C15 amended: when the question names a client ("Acme") and no stored
\* meeting title contains that name, ask infers no title filter for that name;
\* when it then has no title filter, no client id and no date range, it makes
\* exactly one meeting search, unfiltered with the relaxed parameters
\* (1 per meeting, 15 in all, similarity above 0.20), and returns its results.
C15_UnknownClientUnfiltered ==
    (answer.called /\ AcmeUnknown) =>
      /\ ~(/\ Truthy(answer.title_filter)
           /\ Substr(lower(Acme), lower(answer.title_filter)))
      /\ (/\ answer.retrieved
          /\ ~Truthy(answer.title_filter)
          /\ answer.client_id = NoClient
          /\ answer.date_range = NoRange)
            => /\ answer.attempts =
                     <<MeetingAttempt(1, 15, 20, NoClient, NoStr, NoRange)>>
               /\ answer.meeting_sources \in
                     search_similar_diversified(1, 15, 20, NoClient, NoStr, NoRange)

\* the Acme question over meetings titled otherwise: one unfiltered search
\* that finds chunks
C15_Witness ==
    /\ answer.called
    /\ AcmeUnknown
    /\ catalog # {}
    /\ answer.retrieved
    /\ answer.date_range = NoRange
    /\ answer.client_id = NoClient
    /\ Len(answer.attempts) = 1
    /\ answer.meeting_sources # <<>>

\* C18: whenever ask completes without raising, the endpoint responds 200
\* with the answer text and the meeting sources; it responds non-2xx only when
\* retrieval or generation failed.
C18_EndpointSucceeds ==
    response.called =>
      /\ answer.raised = ""
            => /\ response.status_code = 200
               /\ response.answer = answer.value[1]
               /\ response.sources = [i \in 1..Len(answer.value[2]) |->
                                         SourceInfo(answer.value[2][i])]
      /\ response.status_code # 200 => answer.raised # ""

----------------------------------------------------------------------------
(***************************************************************************)
(* Deactivation of a chat while the watcher runs                           *)
(***************************************************************************)
\* dashboard toggle_chat_active(chat_id, is_active): one committed UPDATE
ToggleChatActive(c, is_active) ==
    /\ UNCHANGED <<webhookVars, indexVars, appVars, failed>>
    /\ telegram_chats[c].is_active # is_active
    /\ telegram_chats' = [telegram_chats EXCEPT ![c].is_active = is_active]
    /\ calls' = {}
    /\ returned' = "none"
    /\ UNCHANGED <<telegram_messages, telegram_embeddings, history, wpc, watched,
                   pc, cur, txn, catchup, sync>>

ToggleNext ==
    \/ Next
    \/ \E c \in ChatIds, is_active \in BOOLEAN : ToggleChatActive(c, is_active)

\* the watcher and the backfill with the dashboard toggling chats
SpecToggle == Init /\ [][ToggleNext]_vars

\* what the watcher has stored for chat c
StoredFor(c) ==
    <<{r \in telegram_messages : r.chat_id = c},
      {e \in telegram_embeddings : e.chat_id = c},
      telegram_chats[c].last_synced_message_id>>

\* C21: while a room's is_active flag is false, no step of the live handler
\* or of the reconciler stores a message, stores an embedding or changes the
\* cursor of that room, also when the room was deactivated after the watcher
\* started (steps of the backfill service are not concerned).
C21_InactiveSkipped ==
    [][\A c \in ChatIds :
         (~telegram_chats[c].is_active /\ sync' = sync)
            => StoredFor(c)' = StoredFor(c)]_vars

----------------------------------------------------------------------------
(***************************************************************************)
(* Failure isolation in a reconciler pass                                  *)
(***************************************************************************)
\* the reconciler's call of _save_and_index_message ends without a stored
\* message, the watcher still running
MessageFails ==
    /\ pc[Rec] # "idle"
    /\ pc'[Rec] = "idle"
    /\ wpc' = wpc
    /\ returned' # "true"
    /\ <<cur[Rec].chat_id, cur[Rec].message_id>> \notin CommittedKeys'

\* a step of the pass in which the processing of a room fails
RoomFails == catchup.clean /\ ~catchup'.clean /\ wpc' = wpc

\* C22: in a reconciler pass a failure while processing one room leaves the
\* pass in its loop over the rooms with the remaining rooms still to be
\* processed, and a failure on one message of a room leaves the walk of that
\* room open, so that its later messages are still attempted.
C22_FailuresIsolated ==
    [][/\ RoomFails => /\ catchup'.pc \in {"room", "iter"}
                       /\ catchup'.chats \in {catchup.chats} \cup
                             {catchup.chats \ {ch} : ch \in catchup.chats}
       /\ MessageFails => /\ catchup'.pc = "iter"
                          /\ catchup'.pos = catchup.pos]_vars


----------------------------------------------------------------------------
(***************************************************************************)
(* The two retrieval cascades of ask                                       *)
(***************************************************************************)
\* the meeting searches the cascade has to make, given the filters of the
\* call and the numbers of results n the searches returned
MeetingPlan(client_id, title_filter, date_range, n) ==
    IF ~Truthy(title_filter) /\ client_id = NoClient /\ date_range = NoRange
      THEN <<MeetingAttempt(1, 15, 20, NoClient, NoStr, NoRange)>>
      ELSE LET dropDate == n[1] < 3 /\ date_range # NoRange
               current == IF dropDate THEN n[2] ELSE n[1]
               dropTitle == current < 3 /\ Truthy(title_filter) IN
           <<MeetingAttempt(2, 20, 15, client_id, title_filter, date_range)>>
           \o (IF dropDate
                 THEN <<MeetingAttempt(2, 20, 15, client_id, title_filter, NoRange)>>
                 ELSE <<>>)
           \o (IF dropTitle
                 THEN <<MeetingAttempt(1, 15, 20, client_id, NoStr, NoRange)>>
                 ELSE <<>>)

\* C23: the meeting retrieval of ask follows the cascade: with a client id, a
\* title filter or a date range the first search uses all of them with
\* (2, 20, 0.15); only when it returns fewer than 3 results and there is a
\* date range, a second search drops just the date range; only when the
\* current result still has fewer than 3 and there is a title filter, a
\* further search drops the title filter and uses (1, 15, 0.20); without
\* filters there is one search with (1, 15, 0.20). No search follows one that
\* returned 3 results or more, there are at most 3 searches, and the sources
\* are those of the last search.
C23_MeetingCascade ==
    (answer.called /\ answer.attempts # <<>>) =>
      LET n == answer.found \o <<0, 0>> IN
      /\ Len(answer.found) = Len(answer.attempts)
      /\ answer.attempts =
            MeetingPlan(answer.client_id, answer.title_filter, answer.date_range, n)
      /\ Len(answer.attempts) <= 3
      /\ \A i \in 1..(Len(answer.attempts) - 1) : answer.found[i] < 3
      /\ Len(answer.meeting_sources) = answer.found[Len(answer.found)]

\* a title filter and a date range: the first search finds fewer than 3, the
\* second, without the date range, finds 3 or more and is the last
C23_Witness ==
    /\ answer.called
    /\ Truthy(answer.title_filter)
    /\ answer.date_range # NoRange
    /\ Len(answer.attempts) = 2
    /\ answer.found[1] < 3
    /\ answer.found[2] >= 3

\* the chat searches the cascade has to make, given the filters of the call
\* and the numbers of results n the searches returned
TelegramPlan(search_telegram, telegram_client_filter, date_range, n) ==
    IF ~search_telegram THEN <<>>
    ELSE IF ~Truthy(telegram_client_filter) /\ date_range = NoRange
      THEN <<TelegramAttempt(2, 10, 20, NoStr, NoRange)>>
      ELSE <<TelegramAttempt(3, 15, 15, telegram_client_filter, date_range)>>
           \o (IF n[1] < 2 /\ date_range # NoRange
                 THEN <<TelegramAttempt(3, 15, 15, telegram_client_filter, NoRange)>>
                 ELSE <<>>)

\* C24: the chat retrieval of ask runs only when search_telegram is true;
\* with a chat-client filter or a date range the first search uses
\* (3, 15, 0.15), and only when it returns fewer than 2 results and there is
\* a date range a second search drops the date range; without filters there
\* is one search with (2, 10, 0.20). The chat searches are determined by the
\* chat filter, the date range and the chat result counts alone, and the
\* meeting searches by the meeting filters and the meeting result counts
\* alone: neither cascade depends on what the other returned.
C24_TelegramCascade ==
    (answer.called /\ answer.retrieved) =>
      /\ Len(answer.telegram_found) = Len(answer.telegram_attempts)
      /\ answer.telegram_attempts =
            TelegramPlan(answer.search_telegram, answer.telegram_client_filter,
                         answer.date_range, answer.telegram_found \o <<0>>)
      /\ answer.attempts =
            MeetingPlan(answer.client_id, answer.title_filter, answer.date_range,
                        answer.found \o <<0, 0>>)
      /\ ~answer.search_telegram => answer.telegram_sources = <<>>
      /\ answer.telegram_attempts # <<>>
            => Len(answer.telegram_sources) =
                  answer.telegram_found[Len(answer.telegram_found)]

\* the chat search falls back on dropping the date range while the meeting
\* cascade stopped at its first search with 3 results or more
C24_Witness ==
    /\ answer.called
    /\ answer.retrieved
    /\ Len(answer.telegram_attempts) = 2
    /\ answer.telegram_found[1] < 2
    /\ Len(answer.attempts) = 1
    /\ answer.found[1] >= 3

----------------------------------------------------------------------------
(***************************************************************************)
(* Inference of the client filters                                         *)
(***************************************************************************)
\* the candidate names on the meeting side and on the chat side
MeetingCandidates ==
    {n \in {strip(FirstPart(MeetingRow(m).title)) : m \in catalog} : Len(n) > 2}

ChatCandidates == {ChatRow(c).client_name : c \in rooms} \ {NoStr}

\* the candidates that occur whole in the lowercased question
WholeMatches(cands) == {n \in cands : Substr(lower(n), lower(question))}

\* one of the words of n, longer than 3, occurs in the lowercased question
TokenMatches(n) ==
    \E w \in split(lower(n)) : Len(w) > 3 /\ Substr(w, lower(question))

\* filter is what the claim allows to be inferred from the candidates
InferredAsClaimed(filter, cands) ==
    /\ WholeMatches(cands) # {}
          => /\ filter \in WholeMatches(cands)
             /\ \A n \in WholeMatches(cands) : Len(n) <= Len(filter)
    /\ (WholeMatches(cands) = {} /\ Truthy(filter))
          => filter \in cands /\ TokenMatches(filter)
    /\ (WholeMatches(cands) = {} /\ \A n \in cands : ~TokenMatches(n))
          => filter = NoStr

\* C25: the client filter inferred on the meeting side and on the chat side:
\* when a candidate name occurs whole in the lowercased question the result
\* is a whole-matching candidate of maximal length; a candidate matched only
\* through a word longer than 3 is returned only when no candidate matches
\* whole; when nothing matches the result is None, and with no client id and
\* no date range the unfiltered branch of each cascade is taken.
C25_InferredFilter ==
    (answer.called /\ answer.retrieved) =>
      /\ InferredAsClaimed(answer.title_filter, MeetingCandidates)
      /\ InferredAsClaimed(answer.telegram_client_filter, ChatCandidates)
      /\ (answer.title_filter = NoStr /\ answer.client_id = NoClient
             /\ answer.date_range = NoRange)
            => answer.attempts = <<MeetingAttempt(1, 15, 20, NoClient, NoStr, NoRange)>>
      /\ (answer.telegram_client_filter = NoStr /\ answer.date_range = NoRange
             /\ answer.search_telegram)
            => answer.telegram_attempts = <<TelegramAttempt(2, 10, 20, NoStr, NoRange)>>

----------------------------------------------------------------------------
(***************************************************************************)
(* The order of the steps of process_fireflies_meeting                     *)
(***************************************************************************)
\* C26 as claimed: when a Meeting with the webhook's provider id exists, the
\* processing of the webhook short-circuits as its first step: it does not
\* call the transcript provider and it writes nothing.
C26_ShortCircuitsFirst ==
    [][\A h \in Hooks :
         (MeetingsWith(hook[h].meeting_id) # {} /\ hook'[h] # hook[h])
            => /\ hook[h].pc # "fetch"
               /\ meetings' = meetings]_vars

\* C26 amended: the processing of a webhook calls the transcript provider
\* first and checks for the Meeting second, also when the Meeting exists;
\* when the check finds a Meeting with the provider id the processing ends
\* there and writes nothing.
C26_ShortCircuitsSecond ==
    [][\A h \in Hooks :
         /\ (hook[h].pc = "idle" /\ hook'[h].pc # "idle") => hook'[h].pc = "fetch"
         /\ (hook[h].pc # "check" /\ hook'[h].pc = "check") => hook[h].pc = "fetch"
         /\ (hook[h].pc = "check" /\ hook'[h] # hook[h]
                /\ MeetingsWith(hook[h].meeting_id) # {})
               => /\ hook'[h] = NoHook
                  /\ meetings' = meetings]_vars

\* the transcript of a meeting that is already stored has been fetched again
\* and the existence check is about to find the row
C26_Witness ==
    \E h \in Hooks : /\ hook[h].pc = "check"
                     /\ MeetingsWith(hook[h].meeting_id) # {}

----------------------------------------------------------------------------
(***************************************************************************)
(* The context handed to the generative model                              *)
(***************************************************************************)
\* the places of the pieces t in the context
Places(t) == {k \in DOMAIN answer.context : answer.context[k].t = t}

\* the headers of kind t in the order of the context
Headers(t) == SelectSeq(answer.context, LAMBDA p : p.t = t)

\* C27: in the context of a call that reaches the generative model the
\* meeting section stands under its banner before the chat section, and the
\* rule stands between the two sections; a section without sources is
\* omitted, and with one section alone there is no rule; in each section the
\* groups stand in the order in which their first source was ranked.
C27_CombinedContext ==
    (answer.called /\ answer.llm_calls > 0) =>
      LET m == answer.meeting_sources
          t == answer.telegram_sources
          both == m # <<>> /\ t # <<>> IN
      /\ Cardinality(Places(MeetingBanner.t)) = (IF m # <<>> THEN 1 ELSE 0)
      /\ Cardinality(Places(TelegramBanner.t)) = (IF t # <<>> THEN 1 ELSE 0)
      /\ m = <<>> => Places("meeting") = {} /\ Places("chunk_text") = {}
      /\ t = <<>> => Places("chat") = {} /\ Places("message") = {}
      /\ both => \A a \in Places(MeetingBanner.t) \cup Places("meeting") \cup Places("chunk_text"),
                    b \in Places(TelegramBanner.t) \cup Places("chat") \cup Places("message") :
                     /\ a < b
                     /\ \A r \in Places(Rule.t) : a < r /\ r < b
      /\ Cardinality(Places(Rule.t)) = (IF both THEN 1 ELSE 0)
      /\ [i \in DOMAIN Headers("meeting") |-> Headers("meeting")[i].id]
            = FirstSeen([k \in DOMAIN m |-> m[k].meeting_id])
      /\ [i \in DOMAIN Headers("chat") |-> Headers("chat")[i].title]
            = FirstSeen([k \in DOMAIN t |-> t[k].chat_title])

\* the same without the rule: the banners, the omission of an empty section,
\* the order of the sections and the order of the groups
SectionsInOrder ==
    (answer.called /\ answer.llm_calls > 0) =>
      LET m == answer.meeting_sources
          t == answer.telegram_sources IN
      /\ Cardinality(Places(MeetingBanner.t)) = (IF m # <<>> THEN 1 ELSE 0)
      /\ Cardinality(Places(TelegramBanner.t)) = (IF t # <<>> THEN 1 ELSE 0)
      /\ m = <<>> => Places("meeting") = {} /\ Places("chunk_text") = {}
      /\ t = <<>> => Places("chat") = {} /\ Places("message") = {}
      /\ \A a \in Places(MeetingBanner.t) \cup Places("meeting") \cup Places("chunk_text"),
            b \in Places(TelegramBanner.t) \cup Places("chat") \cup Places("message") : a < b
      /\ [i \in DOMAIN Headers("meeting") |-> Headers("meeting")[i].id]
            = FirstSeen([k \in DOMAIN m |-> m[k].meeting_id])
      /\ [i \in DOMAIN Headers("chat") |-> Headers("chat")[i].title]
            = FirstSeen([k \in DOMAIN t |-> t[k].chat_title])

----------------------------------------------------------------------------
(***************************************************************************)
(* Start and shutdown of the watcher: main and run_periodic_catchup        *)
(***************************************************************************)
OtherVars == <<watcherVars, webhookVars, indexVars, searchVars, dateVars, settingsVars,
               hypothesisVars, askVars>>

Signals == {"SIGTERM", "SIGINT"}

\* main.py 78-89: client.start(), create_task(run_periodic_catchup()), and
\* the initial catchup_all_chats is awaited
Connect ==
    /\ UNCHANGED OtherVars
    /\ proc.main = "start"
    /\ proc' = [proc EXCEPT !.main = "initial", !.connected = TRUE, !.task = "sleeping"]

\* main.py 89-109: the initial catch-up returns, the handlers of SIGTERM and
\* SIGINT are registered and main waits for stop_event
InitialCatchupDone ==
    /\ UNCHANGED OtherVars
    /\ proc.main = "initial"
    /\ proc' = [proc EXCEPT !.main = "waiting", !.handlers = TRUE]

\* a termination signal reaches the connected process: signal_handler sets
\* stop_event once it is registered (main.py 95-102); before that SIGTERM
\* ends the process at once and SIGINT raises KeyboardInterrupt in
\* asyncio.run (main.py 123-127)
Signal(sig) ==
    /\ UNCHANGED OtherVars
    /\ proc.connected
    /\ proc.main \notin {"exited", "killed", "interrupted"}
    /\ proc.signals < MaxSignals
    /\ proc' = IF proc.handlers
                 THEN [proc EXCEPT !.signals = @ + 1, !.stop_event = TRUE]
               ELSE IF sig = "SIGTERM"
                 THEN [proc EXCEPT !.signals = @ + 1, !.main = "killed", !.task = "killed",
                                   !.live = 0, !.log = Append(@, "exit")]
                 ELSE [proc EXCEPT !.signals = @ + 1, !.main = "interrupted"]

\* asyncio.run after KeyboardInterrupt: main is cancelled where it awaits,
\* the remaining tasks are cancelled, the loop is closed; main.py 126-127
\* swallows the KeyboardInterrupt
Interrupted ==
    /\ UNCHANGED OtherVars
    /\ proc.main = "interrupted"
    /\ proc' = [proc EXCEPT !.main = "exited", !.task = "cancelled", !.live = 0,
                            !.log = @ \o <<"cancel", "exit">>]

\* main.py 109-115: stop_event is set; catchup_task.cancel() and await
Shutdown ==
    /\ UNCHANGED OtherVars
    /\ proc.main = "waiting"
    /\ proc.stop_event
    /\ proc' = [proc EXCEPT !.main = "cancelling", !.cancel_requested = TRUE,
                            !.log = Append(@, "cancel")]

\* catchup.py 35-37: the sleep of an hour ends and a pass starts
PeriodicPass ==
    /\ UNCHANGED OtherVars
    /\ proc.task = "sleeping"
    /\ ~proc.cancel_requested
    /\ proc.passes < MaxPasses
    /\ proc' = [proc EXCEPT !.task = "pass", !.passes = @ + 1,
                            !.log = Append(@, "pass")]

\* catchup.py 36-42: the pass returns or raises an Exception, which is
\* logged; the loop sleeps again
PeriodicPassEnds ==
    /\ UNCHANGED OtherVars
    /\ proc.task = "pass"
    /\ ~proc.cancel_requested
    /\ proc' = [proc EXCEPT !.task = "sleeping"]

\* the CancelledError of catchup_task.cancel() is raised in the task where
\* it awaits: in asyncio.sleep it leaves the loop, in the pass it is caught
\* by catchup.py 38-40 and the loop breaks
PeriodicCancelled ==
    /\ UNCHANGED OtherVars
    /\ proc.cancel_requested
    /\ proc.task \in {"sleeping", "pass"}
    /\ proc' = [proc EXCEPT !.task = "cancelled"]

\* main.py 114-120: the await of the task returns, client.disconnect(), end
Disconnect ==
    /\ UNCHANGED OtherVars
    /\ proc.main = "cancelling"
    /\ proc.task = "cancelled"
    /\ proc' = [proc EXCEPT !.main = "exited", !.connected = FALSE, !.live = 0,
                            !.log = @ \o <<"disconnect", "exit">>]

\* main.py 69-75: a NewMessage event starts on_new_message in a task of its
\* own while the session is connected
LiveEvent ==
    /\ UNCHANGED OtherVars
    /\ proc.connected
    /\ proc.main \in {"initial", "waiting", "cancelling"}
    /\ proc.live < NumLive
    /\ proc' = [proc EXCEPT !.live = @ + 1]

\* on_new_message returns, or logs the exception of process_message
LiveDone ==
    /\ UNCHANGED OtherVars
    /\ proc.live > 0
    /\ proc' = [proc EXCEPT !.live = @ - 1]

ShutdownNext ==
    \/ Connect
    \/ LiveEvent
    \/ LiveDone
    \/ InitialCatchupDone
    \/ \E sig \in Signals : Signal(sig)
    \/ Interrupted
    \/ Shutdown
    \/ PeriodicPass
    \/ PeriodicPassEnds
    \/ PeriodicCancelled
    \/ Disconnect

SpecShutdown == Init /\ [][ShutdownNext]_vars

\* the places of event e in the log
At(e) == {k \in DOMAIN proc.log : proc.log[k] = e}

\* C28: when a termination signal has reached the watcher after it connected,
\* also during the initial catch-up, the watcher does not exit before it has
\* cancelled the reconciler task and then disconnected the chat session, in
\* this order, and no reconciler pass starts after the cancellation.
C28_GracefulShutdown ==
    /\ (proc.signals > 0 /\ At("exit") # {})
          => /\ At("cancel") # {}
             /\ At("disconnect") # {}
             /\ ~proc.connected
    /\ \A c \in At("cancel") :
          /\ \A d \in At("disconnect") : c < d
          /\ \A p \in At("pass") : p < c
    /\ \A d \in At("disconnect"), x \in At("exit") : d < x

----------------------------------------------------------------------------
(***************************************************************************)
(* Month names in _parse_date_range                                        *)
(***************************************************************************)
mesyac == <<"_m", "_e", "_s", "_ya", "_c">>

MonthQuestions ==
    {head \o topic \o tail :
        head \in {<<>>, <<"_CH", "_t", "_o", " ", "_p", "_o", " ">>},
        topic \in {<<>>, <<"_m", "_a", "_r", "_k", "_e", "_t", "_i", "_n", "_g">>, <<"_k", "_o", "_m", "_a", "_n", "_d", "_a">>, <<"_v", " ", "_m", "_a", "_e">>, <<"_v", " ", "_ya", "_n", "_v", "_a", "_r", "_e">>},
        tail \in {<<>>, <<" ", "_z", "_a", " ", "_p", "_r", "_o", "_sh", "_l", "_y", "_j", " ", "_m", "_e", "_s", "_ya", "_c">>, <<" ", "_z", "_a", " ", "_p", "_o", "_s", "_l", "_e", "_d", "_n", "_i", "_e", " ", "2", " ", "_n", "_e", "_d", "_e", "_l", "_i">>, <<" ", "_v", " ", "_m", "_a", "_r", "_t", "_e">>}}

MonthInit ==
    /\ WatcherIdle
    /\ WebhookIdle
    /\ IndexIdle
    /\ SearchIdle
    /\ SettingsIdle
    /\ HypothesesIdle
    /\ AskIdle
    /\ MainIdle
    /\ question \in MonthQuestions
    /\ now \in Nows
    /\ parsed = NotParsed

\* _parse_date_range on questions with and without month names
SpecMonth == MonthInit /\ [][DateNext]_vars

\* w is the name of a month in one of its cases: it begins with a key of
\* months_ru, and for the key of May it is one of <<"_m", "_a", "_j">>, <<"_m", "_a", "_ya">>, <<"_m", "_a", "_e">>, <<"_m", "_a", "_yu">>
MonthName(w) ==
    \E i \in 1..Len(months_ru) :
        LET k == months_ru[i][1] IN
        /\ Len(w) >= Len(k)
        /\ SubSeq(w, 1, Len(k)) = k
        /\ (k = <<"_m", "_a">>) => (Len(w) = 3 /\ w[3] \in {"_j", "_ya", "_e", "_yu"})

HasMonthWord(text) == \E w \in split(lower(text)) : MonthName(w)

\* v is a range of the form "<key>* <year>"
IsMonthRange(v) ==
    /\ v # NoRange
    /\ ~IsRaised(v)
    /\ \E i \in 1..(Len(v.description) - 1) : v.description[i] = "*"

\* the text has no quarter and no year expression
NoQuarterNoYear(text) ==
    /\ ~Substr(kvartal, lower(text))
    /\ ~Substr(<<"_g", "_o", "_d">>, lower(text))
    /\ ~Substr(<<"q">>, lower(text))
    /\ ~\E i \in 1..(Len(text) - 3) : \A j \in i..(i + 3) : text[j] \in Digits

\* C29: _parse_date_range returns a month range only when the question has
\* a month name as a word; it returns None for a question without quarter,
\* year, month, "previous ..." or "last N ..." expression; a month key inside
\* another word (<<"_m", "_a">> in <<"_m", "_a", "_r", "_k", "_e", "_t", "_i", "_n", "_g">>) yields no range and does not hide a
\* later "previous month" or "last N" expression.
C29_MonthNamesOnly ==
    parsed.called =>
      LET v == parsed.value
          previous == re_search(Previous(mesyac), lower(question)).ok
          last_n == Substr(<<"_p", "_o", "_s", "_l", "_e", "_d", "_n", "_i", "_e">>, lower(question)) IN
      /\ IsMonthRange(v) => HasMonthWord(question)
      /\ (NoQuarterNoYear(question) /\ ~HasMonthWord(question))
            => /\ (~previous /\ ~last_n) => v = NoRange
               /\ previous => (v # NoRange /\ v.description = <<"_p", "_r", "_o", "_sh", "_l", "_y", "_j", " ", "_m", "_e", "_s", "_ya", "_c">>)
               /\ (~previous /\ last_n)
                     => (v # NoRange /\ SubSeq(v.description, 1, 9) = <<"_p", "_o", "_s", "_l", "_e", "_d", "_n", "_i", "_e">>)


----------------------------------------------------------------------------
\* C30: within one call of ask a fallback search never loses results: the
\* meeting sources finally kept are not fewer than those of the first, fully
\* filtered search, and likewise the chat sources.
C30_FallbackKeepsResults ==
    (answer.called /\ answer.retrieved) =>
      /\ answer.found # <<>> => Len(answer.meeting_sources) >= answer.found[1]
      /\ answer.telegram_found # <<>>
            => Len(answer.telegram_sources) >= answer.telegram_found[1]

\* the chat half of it
ChatFallbackKeepsResults ==
    (answer.called /\ answer.retrieved /\ answer.telegram_found # <<>>)
        => Len(answer.telegram_sources) >= answer.telegram_found[1]
====
